---- MODULE Spec2Model ----
(***************************************************************************)
(* Flow execution engine of authentik: policy engine, flow planner and     *)
(* flow executor, with the challenge stage view that sits on top of them.  *)
(***************************************************************************)
EXTENDS Integers, Sequences, FiniteSets, TLC

VARIABLES
    flow_policies,   \* PolicyBindings attached to the flow (creation order)
    flow_mode,       \* PolicyEngineMode of the flow
    flow_bindings,   \* FlowStageBindings of the flow (creation order)
    sess,            \* per session: executor state, plan, context, last reply
    pe,              \* one PolicyEngine instance and its target
    store,           \* one FlowPlan on its way through the session store
    worker,          \* one MonitoredTask instance, the cache and the events
    legacy,          \* one browser session of the legacy AuthenticationView
    outposts         \* outpost consumers, OutpostStates in the cache, gauge

vars ==
    <<flow_policies, flow_mode, flow_bindings, sess, pe, store,
      worker, legacy, outposts>>

(***************************************************************************)
(* Bounds                                                                  *)
(***************************************************************************)
MaxPolicies == 2     \* policy bindings on the target of the engine instance
MaxStages == 2       \* stage bindings of a flow
MaxOrder == 1        \* order values are 0..MaxOrder
MaxReads == 2        \* reads of the result of one engine instance

(***************************************************************************)
(* Policy structures (authentik/policies/types.py)                         *)
(***************************************************************************)
None == 0

\* an Optional[HttpRequest] that is None; a request that is set is
\* <<request>>
NoHttpRequest == <<>>

\* faulty variant of PolicyRequest.__init__: the context is not a map of
\* the request's own but one every request shares, written by an evaluation
\* of another session
PolicyRequestSharedContext(user) ==
    [user |-> user, http_request |-> NoHttpRequest, obj |-> None,
     context |-> [k \in {"binding_1"} |-> "elsewhere"], debug |-> FALSE]

\* PolicyRequest.__init__(user): a request with a context of its own
PolicyRequest(user) ==
    [user |-> user, http_request |-> NoHttpRequest, obj |-> None,
     context |-> [k \in {} |-> "elsewhere"], debug |-> FALSE]

\* an HttpRequest, as far as set_http_request reads it: get_client_ip gives
\* the address of the client, or nothing
HttpRequest(client_ip) == [client_ip |-> client_ip]
get_client_ip(request) == request.client_ip
HttpRequests == {HttpRequest("10.0.0.1"), HttpRequest("")}

\* GEOIP_READER.city(client_ip)
city(client_ip) == IF client_ip = "10.0.0.1" THEN "city-of-10.0.0.1" ELSE "unknown"

\* PolicyRequest.set_http_request; enabled is GEOIP_READER.enabled
set_http_request(r, request, enabled) ==
    LET client_ip == get_client_ip(request)
    IN  IF ~enabled \/ client_ip = ""
        THEN [r EXCEPT !.http_request = <<request>>]
        ELSE [r EXCEPT
                !.http_request = <<request>>,
                !.context = [k \in DOMAIN @ \cup {"geoip"} |->
                                IF k = "geoip" THEN city(client_ip)
                                ELSE @[k]]]

\* faulty variants of PolicyResult.__init__
PolicyResultDropsMessages(passing, messages) ==
    [passing |-> passing, messages |-> <<>>,
     source_binding |-> None, source_results |-> <<>>]

PolicyResultAlwaysPassing(passing, messages) ==
    [passing |-> TRUE, messages |-> messages,
     source_binding |-> None, source_results |-> <<>>]

PolicyResultNeverPassing(passing, messages) ==
    [passing |-> FALSE, messages |-> messages,
     source_binding |-> None, source_results |-> <<>>]

PolicyResultPassingFromMessages(passing, messages) ==
    [passing |-> messages # <<>>, messages |-> messages,
     source_binding |-> None, source_results |-> <<>>]

\* PolicyResult.__init__(passing, *messages)
PolicyResult(passing, messages) ==
    [passing |-> passing, messages |-> messages,
     source_binding |-> None, source_results |-> <<>>]

(***************************************************************************)
(* Policies and policy bindings.  A policy is an opaque check; what one    *)
(* evaluation of it does is its outcome.                                   *)
(***************************************************************************)
PolicyOutcomes ==
    { [kind |-> "pass",    messages |-> <<"welcome">>],
      [kind |-> "fail",    messages |-> <<"denied">>],
      [kind |-> "raise",   messages |-> <<"boom">>],
      [kind |-> "timeout", messages |-> <<>>] }

PolicyEngineModes == {"all", "any"}

PolicyBindings ==
    [order : 0..MaxOrder, enabled : BOOLEAN, negate : BOOLEAN,
     outcome : PolicyOutcomes]

SeqsUpTo(S, n) == UNION { [1..k -> S] : k \in 0..n }

\* 4.1 Policy Evaluator: evaluate(policy, request) -> PolicyResult.  A check
\* that raises or times out is caught and becomes a failing result.
PolicyEvaluate(outcome) ==
    CASE outcome.kind = "pass"    -> PolicyResult(TRUE, outcome.messages)
      [] outcome.kind = "fail"    -> PolicyResult(FALSE, outcome.messages)
      [] outcome.kind = "raise"   -> PolicyResult(FALSE, outcome.messages)
      [] outcome.kind = "timeout" -> PolicyResult(FALSE, <<"timeout">>)

\* 4.2 step 2: negate flips the boolean, the messages are kept
Negate(result) == [result EXCEPT !.passing = ~result.passing]

\* 4.2 step 2 for binding number i of bindings: evaluate, negate, provenance
BindingResult(bindings, i) ==
    LET b == bindings[i]
        r == PolicyEvaluate(b.outcome)
        n == IF b.negate THEN Negate(r) ELSE r
    IN  [n EXCEPT !.source_binding = i]

\* 4.2 step 1: the enabled bindings by order ascending, ties by creation
RECURSIVE SortByOrder(_, _)
SortByOrder(bindings, idx) ==
    IF idx = {} THEN <<>>
    ELSE LET m == CHOOSE i \in idx :
                    \A j \in idx :
                        \/ bindings[i].order < bindings[j].order
                        \/ bindings[i].order = bindings[j].order /\ i <= j
         IN  <<m>> \o SortByOrder(bindings, idx \ {m})

EnabledBindings(bindings) ==
    SortByOrder(bindings, {i \in DOMAIN bindings : bindings[i].enabled})

\* PolicyEngine.build(): one result per enabled binding, in evaluation order
PolicyEngineBuild(bindings) ==
    LET todo == EnabledBindings(bindings)
    IN  [k \in DOMAIN todo |-> BindingResult(bindings, todo[k])]

RECURSIVE FlattenMessages(_)
FlattenMessages(results) ==
    IF results = <<>> THEN <<>>
    ELSE Head(results).messages \o FlattenMessages(Tail(results))

\* 4.2 steps 3-5: combine the per-binding results by the target's mode
PolicyEngineCombine(results, mode) ==
    IF Len(results) = 0 THEN PolicyResult(TRUE, <<>>)
    ELSE LET passing ==
                 IF mode = "all"
                 THEN \A k \in DOMAIN results : results[k].passing
                 ELSE \E k \in DOMAIN results : results[k].passing
             agg == PolicyResult(passing, FlattenMessages(results))
         IN  [agg EXCEPT !.source_results = results]

PolicyEngineResult(bindings, mode) ==
    PolicyEngineCombine(PolicyEngineBuild(bindings), mode)

\* some policy bindings
FailingBinding ==
    [order |-> 0, enabled |-> TRUE, negate |-> FALSE,
     outcome |-> [kind |-> "fail", messages |-> <<"denied">>]]
NegatedPassingBinding ==
    [order |-> 0, enabled |-> TRUE, negate |-> TRUE,
     outcome |-> [kind |-> "pass", messages |-> <<"welcome">>]]
DisabledFailingBinding == [FailingBinding EXCEPT !.enabled = FALSE]

(***************************************************************************)
(* Flow.with_policy (authentik/flows/models.py).  A flow is looked up by   *)
(* its slug, its policy bindings and its mode; slugs are numbered in their  *)
(* sort order.                                                             *)
(***************************************************************************)
RECURSIVE BySlug(_)
BySlug(flows) ==
    IF flows = {} THEN <<>>
    ELSE LET first == CHOOSE f \in flows : \A g \in flows : f.slug <= g.slug
         IN  <<first>> \o BySlug(flows \ {first})

RECURSIVE FirstPassing(_)
FirstPassing(flows) ==
    IF flows = <<>> THEN None
    ELSE IF PolicyEngineResult(Head(flows).bindings, Head(flows).mode).passing
         THEN Head(flows).slug
         ELSE FirstPassing(Tail(flows))

RECURSIVE FirstNotPassing(_)
FirstNotPassing(flows) ==
    IF flows = <<>> THEN None
    ELSE IF ~PolicyEngineResult(Head(flows).bindings, Head(flows).mode).passing
         THEN Head(flows).slug
         ELSE FirstNotPassing(Tail(flows))

\* faulty variant of Flow.with_policy: the test of result.passing inverted
WithPolicyInverted(flows) == FirstNotPassing(BySlug(flows))

\* faulty variant of Flow.with_policy: the flows are gone through by slug
\* descending
WithPolicyDescending(flows) ==
    LET asc == BySlug(flows)
    IN  FirstPassing([k \in DOMAIN asc |-> asc[Len(asc) + 1 - k]])

\* Flow.with_policy(request, **flow_filter): the slug of the flow returned,
\* None when no flow is; flows are the flows matching the filter
WithPolicy(flows) == FirstPassing(BySlug(flows))

\* the flows a lookup finds: the target of the engine instance, alone, behind
\* a flow nobody may use, or before a flow everybody may use
DeniedFlow == [slug |-> 1, bindings |-> <<FailingBinding>>, mode |-> "all"]
OpenFlow == [slug |-> 3, bindings |-> <<>>, mode |-> "any"]
TargetFlow(bindings, mode) ==
    [slug |-> 2, bindings |-> bindings, mode |-> mode]
Lookups(bindings, mode) ==
    { {TargetFlow(bindings, mode)},
      {DeniedFlow, TargetFlow(bindings, mode)},
      {TargetFlow(bindings, mode), OpenFlow} }

(***************************************************************************)
(* The policy engine as a state machine                                    *)
(***************************************************************************)
NoResult == [passing |-> FALSE, messages |-> <<"unset">>,
             source_binding |-> None, source_results |-> <<>>]

\* an engine instance: request is the PolicyRequest its policies are handed,
\* seen the request context each evaluation found, reads the number of
\* reads of result, drifted says that the policies would by now return
\* something else, completed and collected are the bindings and results of
\* a parallel run in the order the evaluations finished
NewEngine(bindings, mode) ==
    [bindings |-> bindings, mode |-> mode, phase |-> "new",
     request |-> PolicyRequest("alice"), seen |-> <<>>,
     results |-> <<>>, result |-> NoResult, reads |-> 0, drifted |-> FALSE,
     completed |-> <<>>, collected |-> <<>>,
     flows |-> {}, found |-> None]

IdleEngine == [NewEngine(<<>>, "all") EXCEPT !.phase = "idle"]

InitEngine ==
    /\ pe \in { NewEngine(bs, m) :
                bs \in SeqsUpTo(PolicyBindings, MaxPolicies),
                m \in PolicyEngineModes }

\* request.context is a map every policy of the run is handed: the policy
\* of binding i leaves its mark in it under a key of its own
ContextKeys == <<"binding_1", "binding_2", "binding_3", "binding_4">>
PolicyWrites(i) == ContextKeys[i]
WriteContext(context, key) ==
    [k \in DOMAIN context \cup {key} |->
        IF k = key THEN "written" ELSE context[k]]

\* the request context before each evaluation of todo, and after the last
RECURSIVE EvaluationContexts(_, _)
EvaluationContexts(todo, context) ==
    <<context>> \o
        IF todo = <<>> THEN <<>>
        ELSE EvaluationContexts(
                 Tail(todo), WriteContext(context, PolicyWrites(Head(todo))))

\* the engine is handed the HTTP request it was created for
EngineSetHttpRequest ==
    /\ pe.phase = "new"
    /\ pe.request.http_request = NoHttpRequest
    /\ \E request \in HttpRequests, enabled \in BOOLEAN :
          pe' = [pe EXCEPT
                    !.request = set_http_request(@, request, enabled)]
    /\ UNCHANGED <<flow_policies, flow_mode, flow_bindings, sess, store, worker, legacy, outposts>>

\* engine.build()
EngineBuild ==
    /\ pe.phase = "new"
    /\ LET todo == EnabledBindings(pe.bindings)
           contexts == EvaluationContexts(todo, pe.request.context)
       IN  pe' = [pe EXCEPT
                     !.phase = "built",
                     !.results = PolicyEngineBuild(pe.bindings),
                     !.seen = SubSeq(contexts, 1, Len(todo)),
                     !.request.context = contexts[Len(todo) + 1]]
    /\ UNCHANGED <<flow_policies, flow_mode, flow_bindings, sess, store, worker, legacy, outposts>>

\* what the policies of the instance would return if evaluated now
Changed(outcome) ==
    IF outcome.kind = "pass"
    THEN [kind |-> "fail", messages |-> <<"denied">>]
    ELSE [kind |-> "pass", messages |-> <<"welcome">>]
CurrentBindings(e) ==
    IF ~e.drifted THEN e.bindings
    ELSE [i \in DOMAIN e.bindings |->
             [e.bindings[i] EXCEPT !.outcome = Changed(@)]]

\* faulty variant of result: every read evaluates the policies again
EngineResultRecomputed(e) == PolicyEngineResult(CurrentBindings(e), e.mode)

\* result of an instance: computed by the first read and cached for the
\* lifetime of the instance
EngineCachedResult(e) ==
    IF e.reads = 0 THEN PolicyEngineCombine(e.results, e.mode)
    ELSE e.result

\* engine.result
EngineResult ==
    /\ pe.phase \in {"built", "read"}
    /\ pe.reads < MaxReads
    /\ pe' = [pe EXCEPT !.phase = "read", !.reads = @ + 1,
                        !.result = EngineCachedResult(pe)]
    /\ UNCHANGED <<flow_policies, flow_mode, flow_bindings, sess, store, worker, legacy, outposts>>

\* the policies of the target change what they return, after the instance
\* has computed its result
PoliciesChange ==
    /\ pe.phase = "read"
    /\ ~pe.drifted
    /\ pe' = [pe EXCEPT !.drifted = TRUE]
    /\ UNCHANGED <<flow_policies, flow_mode, flow_bindings, sess, store, worker, legacy, outposts>>

\* faulty variant of Reassemble: the results as the evaluations finished
ReassembleInCompletionOrder(bindings, collected) == collected

\* the results of a parallel run put back in the order of the bindings
Reassemble(bindings, collected) ==
    LET todo == EnabledBindings(bindings)
    IN  [k \in DOMAIN todo |->
            LET j == CHOOSE j \in DOMAIN collected :
                         collected[j].source_binding = todo[k]
            IN  collected[j]]

\* parallel run: the evaluation of one enabled binding finishes
ProcessCompletes ==
    /\ pe.phase \in {"new", "running"}
    /\ \E i \in DOMAIN pe.bindings :
          /\ pe.bindings[i].enabled
          /\ \A k \in DOMAIN pe.completed : pe.completed[k] # i
          /\ pe' = [pe EXCEPT
                       !.phase = "running",
                       !.completed = Append(@, i),
                       !.collected = Append(@, BindingResult(pe.bindings, i))]
    /\ UNCHANGED <<flow_policies, flow_mode, flow_bindings, sess, store, worker, legacy, outposts>>

\* parallel run: every evaluation has finished, the results are joined
EngineJoin ==
    /\ pe.phase \in {"new", "running"}
    /\ \A i \in DOMAIN pe.bindings :
          pe.bindings[i].enabled =>
              \E k \in DOMAIN pe.completed : pe.completed[k] = i
    /\ pe' = [pe EXCEPT !.phase = "built",
                        !.results = Reassemble(pe.bindings, pe.collected)]
    /\ UNCHANGED <<flow_policies, flow_mode, flow_bindings, sess, store, worker, legacy, outposts>>

\* Flow.with_policy(request, **flow_filter)
EngineWithPolicy ==
    /\ pe.phase = "read" /\ pe.reads = 1
    /\ \E flows \in Lookups(pe.bindings, pe.mode) :
          pe' = [pe EXCEPT !.phase = "looked_up", !.flows = flows,
                           !.found = WithPolicy(flows)]
    /\ UNCHANGED <<flow_policies, flow_mode, flow_bindings, sess, store, worker, legacy, outposts>>

(***************************************************************************)
(* Flows and stage bindings (authentik/flows/models.py)                    *)
(***************************************************************************)
\* class InvalidResponseAction
RETRY == "retry"
RESTART == "restart"
RESTART_WITH_CONTEXT == "restart_with_context"
InvalidResponseAction == {RETRY, RESTART, RESTART_WITH_CONTEXT}

\* class FlowStageBinding with the defaults of its fields; the stage bound is
\* the one numbered like the binding
FlowStageBinding(order) ==
    [order |-> order,
     evaluate_on_plan |-> TRUE,
     re_evaluate_policies |-> FALSE,
     invalid_response_action |-> RETRY,
     policies |-> <<>>,
     policy_engine_mode |-> "all"]

\* stage bindings as the executor meets them: distinct ascending orders, any
\* invalid_response_action, policies decided at planning or at presentation
ExecutorBindings(i) ==
    { [FlowStageBinding(i - 1) EXCEPT
          !.invalid_response_action = a,
          !.evaluate_on_plan = g[1], !.re_evaluate_policies = g[2],
          !.policies = g[3]] :
      a \in InvalidResponseAction,
      g \in { <<TRUE, FALSE, <<>>>>,
              <<FALSE, TRUE, <<FailingBinding>>>>,
              <<FALSE, FALSE, <<FailingBinding>>>> } }

\* stage bindings whose policies pass or fail, checked at planning, at
\* presentation, at both or never
NegatedFailingBinding == [FailingBinding EXCEPT !.negate = TRUE]
ReevaluatedBindings(i) ==
    { [FlowStageBinding(i - 1) EXCEPT
          !.evaluate_on_plan = e, !.re_evaluate_policies = re,
          !.policies = p] :
      e \in BOOLEAN, re \in BOOLEAN,
      p \in {<<FailingBinding>>, <<NegatedFailingBinding>>} }

\* stage bindings as the planner meets them: unique_together is
\* (target, stage, order), so bindings of different stages may share an order
PlannerBindings(i) ==
    { [FlowStageBinding(o) EXCEPT !.evaluate_on_plan = e, !.policies = p] :
      o \in 0..MaxOrder, e \in BOOLEAN,
      p \in {<<>>, <<FailingBinding>>, <<NegatedPassingBinding>>} }

\* a flow is its stage bindings in creation order
ExecutorFlows ==
    UNION { {f \in [1..n -> UNION {ExecutorBindings(i) : i \in 1..n}] :
                \A i \in 1..n : f[i] \in ExecutorBindings(i)} :
            n \in 0..MaxStages }

ReevaluatedFlows ==
    UNION { {f \in [1..n -> UNION {ReevaluatedBindings(i) : i \in 1..n}] :
                \A i \in 1..n : f[i] \in ReevaluatedBindings(i)} :
            n \in 0..MaxStages }

PlannerFlows ==
    UNION { {f \in [1..n -> UNION {PlannerBindings(i) : i \in 1..n}] :
                \A i \in 1..n : f[i] \in PlannerBindings(i)} :
            n \in 0..MaxStages }

FlowStageBindings == ExecutorFlows \cup PlannerFlows

\* the flow's own policy bindings with the flow's mode
FlowPolicies ==
    { <<<<>>, "any">>, <<<<DisabledFailingBinding>>, "all">>,
      <<<<FailingBinding>>, "all">>, <<<<NegatedPassingBinding>>, "any">> }

(***************************************************************************)
(* Plan context                                                            *)
(***************************************************************************)
PLAN_CONTEXT_PENDING_USER == "pending_user"
PLAN_CONTEXT_PENDING_USER_IDENTIFIER == "pending_user_identifier"

EmptyContext == [k \in {} |-> "alice"]
Only(key, value) == [k \in {key} |-> value]

\* contexts a caller hands to the planner for a new session
InitialContexts ==
    {EmptyContext, Only(PLAN_CONTEXT_PENDING_USER_IDENTIFIER, "alice")}

\* context updates of an accepted response
ContextUpdates == {EmptyContext, Only(PLAN_CONTEXT_PENDING_USER, "bob")}

Merge(context, updates) ==
    [k \in DOMAIN context \cup DOMAIN updates |->
        IF k \in DOMAIN updates THEN updates[k] ELSE context[k]]

(***************************************************************************)
(* 4.3 Flow Planner                                                        *)
(***************************************************************************)
FlowNonApplicableError ==
    [ok |-> FALSE, bindings |-> <<>>, context |-> EmptyContext]

\* the stage bindings ordered by order ascending; the database decides how
\* bindings of equal order follow each other
Arrangements(bindings) ==
    { p \in [DOMAIN bindings -> DOMAIN bindings] :
        /\ \A k, l \in DOMAIN p : k # l => p[k] # p[l]
        /\ \A k, l \in DOMAIN p :
              k < l => bindings[p[k]].order <= bindings[p[l]].order }

BindingPasses(b) == PolicyEngineResult(b.policies, b.policy_engine_mode).passing

\* faulty variant of plan: the context starts from a default that plans
\* share, with what an earlier plan left in it
FlowPlannerPlanSharedDefault(policies, mode, bindings, initial_context, arrangement) ==
    IF ~PolicyEngineResult(policies, mode).passing
    THEN FlowNonApplicableError
    ELSE LET Applicable(i) ==
                 ~bindings[i].evaluate_on_plan \/ BindingPasses(bindings[i])
         IN  [ok |-> TRUE,
              bindings |-> SelectSeq(arrangement, Applicable),
              context |-> Merge(Only(PLAN_CONTEXT_PENDING_USER, "bob"),
                                initial_context)]

\* plan(flow, user, request, initial_context) -> FlowPlan
FlowPlannerPlan(policies, mode, bindings, initial_context, arrangement) ==
    IF ~PolicyEngineResult(policies, mode).passing
    THEN FlowNonApplicableError
    ELSE LET Applicable(i) ==
                 ~bindings[i].evaluate_on_plan \/ BindingPasses(bindings[i])
         IN  [ok |-> TRUE,
              bindings |-> SelectSeq(arrangement, Applicable),
              context |-> initial_context]

(***************************************************************************)
(* 4.4 Flow Executor and the challenge stage view                          *)
(* (authentik/flows/stage.py)                                              *)
(***************************************************************************)
Sessions == {"s1", "s2"}
ActiveSessions == {"s1"}

NoRequest == [method |-> "none", valid |-> TRUE, raised |-> FALSE]
NoResponse ==
    [kind |-> "none", stage |-> None, errors |-> FALSE, challenge_ok |-> TRUE,
     pending_user |-> ""]

\* no policy engine has run for the session yet
NoPolicyRequest ==
    [user |-> "", http_request |-> NoHttpRequest, obj |-> None,
     context |-> EmptyContext, debug |-> FALSE]

\* a session of a user before its first request: no plan in the session
\* store; planned is the stage sequence as the planner returned it,
\* policy_request the PolicyRequest the planner's engines were given,
\* reevaluated the entries of the plan whose policies the executor has run
\* again, and corrupt says that the persisted plan no longer deserializes
NewSession(user, initial_context) ==
    [user |-> user, state |-> "PLANNING", via |-> "none",
     has_plan |-> FALSE, corrupt |-> FALSE,
     bindings |-> <<>>, context |-> EmptyContext,
     planned |-> <<>>, policy_request |-> NoPolicyRequest,
     reevaluated |-> {},
     initial_context |-> initial_context,
     planned_context |-> EmptyContext,
     current |-> None,
     request |-> NoRequest, response |-> NoResponse, issued |-> FALSE]

\* executor.current_binding
CurrentBinding(r) == flow_bindings[r.current]

Redirect(kind) ==
    [kind |-> kind, stage |-> None, errors |-> FALSE, challenge_ok |-> TRUE,
     pending_user |-> ""]

\* the plan is empty: terminal redirect to the flow's success destination
Completed(r) ==
    [r EXCEPT !.state = "COMPLETED", !.bindings = <<>>,
              !.response = Redirect("done")]

\* FlowNonApplicableError: access-denied page, no plan
Denied(r) ==
    [r EXCEPT !.state = "DENIED", !.response = Redirect("denied")]

\* re_evaluate_policies: an entry whose binding asks for it is checked again
\* when it is the front of the plan and about to be presented, and skipped
\* when failing
RECURSIVE SkipFailing(_)
SkipFailing(entries) ==
    IF entries = <<>> THEN <<>>
    ELSE LET b == flow_bindings[Head(entries)]
         IN  IF b.re_evaluate_policies /\ ~BindingPasses(b)
             THEN SkipFailing(Tail(entries))
             ELSE entries

\* the entries SkipFailing runs the Policy Engine for: the flagged entries
\* from the front of the plan up to the first one that stays
RECURSIVE Reevaluated(_)
Reevaluated(entries) ==
    IF entries = <<>> THEN {}
    ELSE LET b == flow_bindings[Head(entries)]
         IN  IF ~b.re_evaluate_policies THEN {}
             ELSE {Head(entries)} \cup
                      IF BindingPasses(b) THEN {}
                      ELSE Reevaluated(Tail(entries))

\* faulty variant of Present: a plan with nothing to present is refused
PresentDeniesEmptyPlan(r) ==
    LET rest == SkipFailing(r.bindings)
        q == [r EXCEPT !.reevaluated = @ \cup Reevaluated(r.bindings)]
    IN  IF rest = <<>> THEN Denied(q)
        ELSE [q EXCEPT !.state = "STAGE_PENDING", !.bindings = rest,
                       !.current = Head(rest)]

\* the front entry of the plan becomes the current binding; a plan with
\* nothing left to present is complete
Present(r) ==
    LET rest == SkipFailing(r.bindings)
        q == [r EXCEPT !.reevaluated = @ \cup Reevaluated(r.bindings)]
    IN  IF rest = <<>> THEN Completed(q)
        ELSE [q EXCEPT !.state = "STAGE_PENDING", !.bindings = rest,
                       !.current = Head(rest)]

\* the PolicyRequest of the planner's engines: a new request for the user,
\* with the plan context for the policies to read
PlannerRequest(user, context) ==
    [PolicyRequest(user) EXCEPT !.context = Merge(@, context)]

\* first request for a flow: if no plan exists for the session, plan
EnsurePlan(r, arrangement) ==
    IF r.has_plan THEN r
    ELSE LET p == FlowPlannerPlan(flow_policies, flow_mode, flow_bindings,
                                  r.initial_context, arrangement)
             q == [r EXCEPT !.policy_request =
                                PlannerRequest(r.user, r.initial_context)]
         IN  IF ~p.ok THEN Denied(q)
             ELSE [q EXCEPT !.state = "STAGE_PENDING",
                            !.has_plan = TRUE,
                            !.bindings = p.bindings,
                            !.planned = p.bindings,
                            !.reevaluated = {},
                            !.context = p.context,
                            !.planned_context = p.context]

\* User(username=..., email=...); a user that exists is known by its name,
\* in the context as in the request
User(username, email) == [username |-> username, email |-> email]
UserOf(name) == User(name, "user@example.org")

\* faulty variant of get_pending_user: the pending user comes before the
\* identifier
get_pending_user_prefers_user(context, for_display, request_user) ==
    IF PLAN_CONTEXT_PENDING_USER \in DOMAIN context
    THEN UserOf(context[PLAN_CONTEXT_PENDING_USER])
    ELSE IF PLAN_CONTEXT_PENDING_USER_IDENTIFIER \in DOMAIN context
              /\ for_display
         THEN User(context[PLAN_CONTEXT_PENDING_USER_IDENTIFIER], "")
         ELSE UserOf(request_user)

\* StageView.get_pending_user(for_display)
get_pending_user(context, for_display, request_user) ==
    IF PLAN_CONTEXT_PENDING_USER_IDENTIFIER \in DOMAIN context
          /\ for_display
    THEN User(context[PLAN_CONTEXT_PENDING_USER_IDENTIFIER], "")
    ELSE IF PLAN_CONTEXT_PENDING_USER \in DOMAIN context
         THEN UserOf(context[PLAN_CONTEXT_PENDING_USER])
         ELSE UserOf(request_user)

\* HttpChallengeResponse(challenge) for the current stage, a
\* WithUserInfoChallenge with the name of the pending user for display
Challenge(r, errors, challenge_ok) ==
    [kind |-> "challenge", stage |-> r.current, errors |-> errors,
     challenge_ok |-> challenge_ok,
     pending_user |-> get_pending_user(r.context, TRUE, r.user).username]

\* faulty variant of get: an invalid challenge is answered with an error
get_refuses_invalid_challenge(r, challenge_ok) ==
    IF challenge_ok
    THEN [r EXCEPT !.response = Challenge(r, FALSE, challenge_ok),
                   !.issued = TRUE]
    ELSE [r EXCEPT !.response = Redirect("error")]

\* ChallengeStageView.get: an invalid challenge is logged and still returned
get(r, challenge_ok) ==
    [r EXCEPT !.response = Challenge(r, FALSE, challenge_ok), !.issued = TRUE]

\* faulty variant of challenge_invalid: response_errors is not set
challenge_invalid_without_errors(r, challenge_ok) ==
    [r EXCEPT !.response = Challenge(r, FALSE, challenge_ok), !.issued = TRUE]

\* ChallengeStageView.challenge_invalid: the challenge again, with the
\* response's field errors in response_errors
challenge_invalid(r, challenge_ok) ==
    [r EXCEPT !.response = Challenge(r, TRUE, challenge_ok), !.issued = TRUE]

\* challenge_valid of a stage: its success callback updates the plan
\* context, then the front entry is popped; an empty plan is complete
challenge_valid(r, updates) ==
    LET done == [r EXCEPT !.via = "STAGE_DONE",
                          !.context = Merge(r.context, updates),
                          !.bindings = Tail(r.bindings),
                          !.response = Redirect("redirect")]
    IN  IF done.bindings = <<>> THEN Completed(done) ELSE done

\* executor.restart_flow(keep_context): drop the plan, replan on the next
\* request with the kept context or with none
restart_flow(r, keep_context) ==
    [r EXCEPT !.state = "PLANNING", !.via = "RESTARTING",
              !.has_plan = FALSE, !.bindings = <<>>, !.planned = <<>>,
              !.reevaluated = {},
              !.context = EmptyContext,
              !.initial_context =
                  IF keep_context THEN r.context ELSE EmptyContext,
              !.response = Redirect("redirect")]

\* faulty variants of ChallengeStageView.post
post_always_keeps_context(r, valid, updates, challenge_ok) ==
    IF ~valid
    THEN IF CurrentBinding(r).invalid_response_action
               \in {RESTART, RESTART_WITH_CONTEXT}
         THEN restart_flow(r, TRUE)
         ELSE challenge_invalid(r, challenge_ok)
    ELSE challenge_valid(r, updates)

post_never_keeps_context(r, valid, updates, challenge_ok) ==
    IF ~valid
    THEN IF CurrentBinding(r).invalid_response_action
               \in {RESTART, RESTART_WITH_CONTEXT}
         THEN restart_flow(r, FALSE)
         ELSE challenge_invalid(r, challenge_ok)
    ELSE challenge_valid(r, updates)

post_validity_inverted(r, valid, updates, challenge_ok) ==
    IF valid
    THEN IF CurrentBinding(r).invalid_response_action
               \in {RESTART, RESTART_WITH_CONTEXT}
         THEN restart_flow(r, CurrentBinding(r).invalid_response_action
                                  = RESTART_WITH_CONTEXT)
         ELSE challenge_invalid(r, challenge_ok)
    ELSE challenge_valid(r, updates)

\* ChallengeStageView.post
post(r, valid, updates, challenge_ok) ==
    IF ~valid
    THEN IF CurrentBinding(r).invalid_response_action
               \in {RESTART, RESTART_WITH_CONTEXT}
         THEN LET keep_context ==
                      CurrentBinding(r).invalid_response_action
                          = RESTART_WITH_CONTEXT
              IN  restart_flow(r, keep_context)
         ELSE challenge_invalid(r, challenge_ok)
    ELSE challenge_valid(r, updates)

\* faulty variant of LoadPlan: the plan that did not deserialize is used
LoadPlanKeepsCorruptPlan(r) == [r EXCEPT !.corrupt = FALSE]

\* PlanCorruptionError: a persisted plan that does not deserialize is
\* discarded with its context, and the session has no plan
LoadPlan(r) ==
    IF ~r.corrupt THEN r
    ELSE [r EXCEPT !.corrupt = FALSE, !.state = "PLANNING",
                   !.has_plan = FALSE, !.bindings = <<>>, !.planned = <<>>,
                   !.reevaluated = {},
                   !.context = EmptyContext,
                   !.initial_context = EmptyContext]

\* ChallengeStageView.post when challenge.is_valid() raises: nothing in post
\* catches it, so no line of post after the call runs and the exception
\* leaves post; the session is as it was and the reply is the error
post_validator_raises(r) ==
    [r EXCEPT !.response = Redirect("error")]

\* one request of a session: plan if need be, then hand it to the stage;
\* raised says that the validator of the stage raises on the response
Dispatch(r, method, valid, raised, updates, challenge_ok, arrangement) ==
    LET l  == LoadPlan(r)
        r0 == [l EXCEPT !.request = [method |-> method, valid |-> valid,
                                     raised |-> raised],
                        !.via = "none", !.current = None]
        r1 == EnsurePlan(r0, arrangement)
        r2 == IF r1.state = "DENIED" THEN r1 ELSE Present(r1)
    IN  IF r2.state # "STAGE_PENDING" THEN r2
        ELSE IF method = "GET" THEN get(r2, challenge_ok)
        ELSE IF raised THEN post_validator_raises(r2)
        ELSE post(r2, valid, updates, challenge_ok)

\* faulty variant of Live: requests are handled in terminal states too
LiveWhenTerminal(s) == sess[s].state \in {"PLANNING", "STAGE_PENDING", "COMPLETED", "DENIED"}

\* COMPLETED and DENIED are terminal: the execution takes no request
Live(s) == sess[s].state \in {"PLANNING", "STAGE_PENDING"}

\* the planner runs only in a request that finds no plan in the session
PlanningChoices(s) ==
    IF sess[s].has_plan /\ ~sess[s].corrupt THEN {<<>>}
    ELSE Arrangements(flow_bindings)

OtherVars ==
    <<flow_policies, flow_mode, flow_bindings, pe, store, worker,
      legacy, outposts>>

\* GET of the executor
RequestGet(s) ==
    /\ Live(s)
    /\ \E challenge_ok \in BOOLEAN, arrangement \in PlanningChoices(s) :
          sess' = [sess EXCEPT ![s] =
                      Dispatch(sess[s], "GET", TRUE, FALSE, EmptyContext,
                               challenge_ok, arrangement)]
    /\ UNCHANGED OtherVars

\* POST of the executor with a response the stage accepts
RequestPostValid(s) ==
    /\ Live(s)
    /\ \E updates \in ContextUpdates, arrangement \in PlanningChoices(s) :
          sess' = [sess EXCEPT ![s] =
                      Dispatch(sess[s], "POST", TRUE, FALSE, updates,
                               TRUE, arrangement)]
    /\ UNCHANGED OtherVars

\* POST of the executor with a response the stage rejects
RequestPostInvalid(s) ==
    /\ Live(s)
    /\ \E challenge_ok \in BOOLEAN, arrangement \in PlanningChoices(s) :
          sess' = [sess EXCEPT ![s] =
                      Dispatch(sess[s], "POST", FALSE, FALSE, EmptyContext,
                               challenge_ok, arrangement)]
    /\ UNCHANGED OtherVars

\* POST of the executor with a response on which the validator raises
RequestPostRaises(s) ==
    /\ Live(s)
    /\ \E arrangement \in PlanningChoices(s) :
          sess' = [sess EXCEPT ![s] =
                      Dispatch(sess[s], "POST", FALSE, TRUE, EmptyContext,
                               TRUE, arrangement)]
    /\ UNCHANGED OtherVars

\* the session store loses the format of the plan it holds for session s
\* (stale after an upgrade): the plan is there but cannot be read back
PlanCorrupted(s) ==
    /\ Live(s) /\ sess[s].has_plan /\ ~sess[s].corrupt
    /\ sess' = [sess EXCEPT ![s].corrupt = TRUE]
    /\ UNCHANGED OtherVars

(***************************************************************************)
(* Stages and the FlowPlan in the session store                            *)
(* (authentik/flows/models.py).  A plan is pickled into the session        *)
(* between two requests: an object becomes the importable name of its      *)
(* class and the state of the instance, a class becomes its name.          *)
(***************************************************************************)
\* StageView classes, each defined at the top of its module
StageViews ==
    { [module |-> "authentik.stages.consent.stage",
       qualname |-> "ConsentStageView"],
      [module |-> "authentik.providers.oauth2.views.authorize",
       qualname |-> "OAuthFulfillmentStage"] }

NotImplementedError ==
    [module |-> "builtins", qualname |-> "NotImplementedError"]

\* class Stage: the fields of the instance and, in dict, what else has
\* been set on it
Stage(name) ==
    [name |-> name, dict |-> [k \in {} |-> NotImplementedError]]

\* faulty variant of in_memory_stage: what is set on the instance is a
\* function generated locally that returns the view
in_memory_stage_local_function(view) ==
    [Stage("") EXCEPT !.dict =
        [k \in {"__in_memory_type"} |->
            [module |-> view.module,
             qualname |-> "in_memory_stage.<locals>.type"]]]

\* in_memory_stage(view): a stage that is not saved, with the view set on
\* the instance as __in_memory_type
in_memory_stage(view) ==
    [Stage("") EXCEPT !.dict = [k \in {"__in_memory_type"} |-> view]]

\* Stage.type
type(stage) ==
    IF "__in_memory_type" \in DOMAIN stage.dict
    THEN stage.dict["__in_memory_type"]
    ELSE NotImplementedError

\* the stages a plan may hold: saved ones and in-memory ones
PlanStages ==
    {Stage("identification"), Stage("password")}
        \cup {in_memory_stage(view) : view \in StageViews}

PlanContexts ==
    { EmptyContext,
      Only(PLAN_CONTEXT_PENDING_USER_IDENTIFIER, "alice"),
      Only(PLAN_CONTEXT_PENDING_USER, "bob"),
      Merge(Only(PLAN_CONTEXT_PENDING_USER_IDENTIFIER, "alice"),
            Only(PLAN_CONTEXT_PENDING_USER, "bob")) }

\* FlowPlan: the (stage, binding) entries left and the context
FlowPlans ==
    [bindings : SeqsUpTo([stage : PlanStages, order : 0..MaxOrder],
                         MaxStages),
     context : PlanContexts]

\* pickle of a class or function: by reference, the name it is imported
\* by; what is generated at run time has no such name
Importable == StageViews \cup {NotImplementedError}
PickleClass(cls) == <<"class", cls.module, cls.qualname>>
UnpickleClass(data) ==
    CHOOSE cls \in Importable :
        cls.module = data[2] /\ cls.qualname = data[3]

\* pickle of a Stage instance: the class by reference and the state of the
\* instance, fields and dict
Picklable(stage) == \A k \in DOMAIN stage.dict : stage.dict[k] \in Importable
PickleStage(stage) ==
    [class |-> "authentik.flows.models.Stage",
     name |-> stage.name,
     dict |-> [k \in DOMAIN stage.dict |-> PickleClass(stage.dict[k])]]
UnpickleStage(data) ==
    [name |-> data.name,
     dict |-> [k \in DOMAIN data.dict |-> UnpickleClass(data.dict[k])]]

\* the context map as a list of (key, value) items in key order
RECURSIVE PickleItems(_, _)
PickleItems(context, keys) ==
    IF keys = {} THEN <<>>
    ELSE LET k == CHOOSE x \in keys :
                    \A y \in keys :
                        x = PLAN_CONTEXT_PENDING_USER
                            \/ y # PLAN_CONTEXT_PENDING_USER
         IN  <<<<k, context[k]>>>> \o PickleItems(context, keys \ {k})

UnpickleItems(items) ==
    [k \in {items[i][1] : i \in DOMAIN items} |->
        LET i == CHOOSE j \in DOMAIN items : items[j][1] = k
        IN  items[i][2]]

NoData == [ok |-> FALSE, bindings |-> <<>>, context |-> <<>>]
NoPlan == [bindings |-> <<>>, context |-> EmptyContext]

\* putPlan: serialize the plan into session storage
Serialize(plan) ==
    IF \E k \in DOMAIN plan.bindings : ~Picklable(plan.bindings[k].stage)
    THEN NoData
    ELSE [ok |-> TRUE,
          bindings |-> [k \in DOMAIN plan.bindings |->
                           <<PickleStage(plan.bindings[k].stage),
                             plan.bindings[k].order>>],
          context |-> PickleItems(plan.context, DOMAIN plan.context)]

\* getPlan: deserialize what the session storage holds
Deserialize(data) ==
    IF ~data.ok THEN NoPlan
    ELSE [bindings |-> [k \in DOMAIN data.bindings |->
                           [stage |-> UnpickleStage(data.bindings[k][1]),
                            order |-> data.bindings[k][2]]],
          context |-> UnpickleItems(data.context)]

IdleStore ==
    [phase |-> "idle", plan |-> NoPlan, data |-> NoData, loaded |-> NoPlan]

InitStore ==
    store \in { [phase |-> "memory", plan |-> plan, data |-> NoData,
                 loaded |-> NoPlan] : plan \in FlowPlans }

\* end of a request: the plan goes into the session
putPlan ==
    /\ store.phase = "memory"
    /\ store' = [store EXCEPT !.phase = "stored",
                              !.data = Serialize(store.plan)]
    /\ UNCHANGED <<flow_policies, flow_mode, flow_bindings, sess, pe, worker, legacy, outposts>>

\* start of the next request: the plan comes out of the session
getPlan ==
    /\ store.phase = "stored"
    /\ store' = [store EXCEPT !.phase = "loaded",
                              !.loaded = Deserialize(store.data)]
    /\ UNCHANGED <<flow_policies, flow_mode, flow_bindings, sess, pe, worker, legacy, outposts>>

(***************************************************************************)
(* Monitored tasks (authentik/events/monitored_tasks.py).  A string is the *)
(* sequence of its parts joined by "_"; time stamps and call arguments   *)
(* are left out of TaskInfo.                                               *)
(***************************************************************************)
MaxRuns == 2         \* runs of the one task instance
MaxTaskMessages == 2 \* messages of a result that with_error still adds to
MaxFrames == 2       \* frames of the traceback of a caught exception

\* class TaskResultStatus
SUCCESSFUL == 1
WARNING == 2
ERROR == 4

\* an Optional[str] that is None; every test of the code on a uid is for
\* its truth, which is that of the empty string
NoUid == ""

\* class TaskResult
TaskResult(status, messages, uid) ==
    [status |-> status, messages |-> messages, uid |-> uid]

\* format_tb(exc.__traceback__): one entry for each frame of the traceback
\* of the exception; an exception that was only constructed has no frame,
\* one caught in the block that raised it has one, and one more for every
\* call between the try block and the raise
format_tb(frames) == [i \in 1..frames |-> "Traceback"]

\* TaskResult.with_error: extends the messages of the result itself
with_error(result, exc, frames) ==
    [result EXCEPT !.messages = (@ \o format_tb(frames)) \o <<exc>>]

\* class TaskInfo
TaskInfo(task_name, result, task_call_func) ==
    [task_name |-> <<task_name>>, result |-> result,
     task_call_func |-> task_call_func]

\* TaskInfo.save: the cache key and the info as cache.set is handed it
save(info) ==
    LET key == <<"task">> \o info.task_name
    IN  IF info.result.uid # NoUid
        THEN [key |-> Append(key, info.result.uid),
              info |-> [info EXCEPT !.task_name = Append(@, info.result.uid)]]
        ELSE [key |-> key, info |-> info]

\* separator.join(messages)
RECURSIVE join(_, _)
join(separator, messages) ==
    IF messages = <<>> THEN <<>>
    ELSE IF Len(messages) = 1 THEN messages
    ELSE <<Head(messages), separator>> \o join(separator, Tail(messages))

SYSTEM_TASK_EXCEPTION == "system_task_exception"

\* Event.new(action, message=...)
Event(action, message) == [action |-> action, message |-> message]

\* MonitoredTask.__init__, on a task called name
MonitoredTask(name, save_on_success) ==
    [name |-> name, save_on_success |-> save_on_success,
     uid |-> NoUid, result |-> <<>>]

\* the worker: the task instance, the cache, and of the run under way or
\* last finished what it wrote (saved), the events it recorded, the result
\* its last set_status was handed (set_in_run) and how it ended
NoCache == [k \in {} |-> TaskInfo("", TaskResult(ERROR, <<>>, NoUid), "")]

NewWorker(name, save_on_success) ==
    [task |-> MonitoredTask(name, save_on_success), cache |-> NoCache,
     phase |-> "waiting", outcome |-> "none", runs |-> 0, failures |-> 0,
     saved |-> <<>>, events |-> <<>>, set_in_run |-> <<>>, exc |-> ""]

\* cache.set(key, info)
CacheSet(w, info) ==
    LET s == save(info)
    IN  [w EXCEPT
            !.cache = [k \in DOMAIN w.cache \cup {s.key} |->
                          IF k = s.key THEN s.info ELSE w.cache[k]],
            !.saved = Append(@, s)]

\* MonitoredTask.set_uid
set_uid(w, uid) == [w EXCEPT !.task.uid = uid]

\* MonitoredTask.set_status
set_status(w, result) == [w EXCEPT !.task.result = <<result>>]

\* self._result with its uid filled in from self._uid
WithUid(result, uid) ==
    IF result.uid = NoUid THEN [result EXCEPT !.uid = uid] ELSE result

\* faulty variant of after_return: save_on_success is not looked at
after_return_always_saves(w) ==
    IF w.task.result = <<>> THEN w
    ELSE LET r == WithUid(w.task.result[1], w.task.uid)
             w1 == [w EXCEPT !.task.result = <<r>>]
         IN  CacheSet(w1, TaskInfo(w.task.name, r, w.task.name))

\* MonitoredTask.after_return
after_return(w) ==
    IF w.task.result = <<>> THEN w
    ELSE LET r == WithUid(w.task.result[1], w.task.uid)
             w1 == [w EXCEPT !.task.result = <<r>>]
         IN  IF w.task.save_on_success
             THEN CacheSet(w1, TaskInfo(w.task.name, r, w.task.name))
             ELSE w1

\* MonitoredTask.on_failure
on_failure(w, exc) ==
    LET r0 == IF w.task.result = <<>> THEN TaskResult(ERROR, <<exc>>, NoUid)
              ELSE w.task.result[1]
        r  == WithUid(r0, w.task.uid)
        w1 == [w EXCEPT !.task.result = <<r>>]
        w2 == CacheSet(w1, TaskInfo(w.task.name, r, w.task.name))
        message ==
            join(<<"Task", w.task.name, "encountered an error: ">>,
                 [k \in DOMAIN r.messages |-> <<r.messages[k]>>])
    IN  [w2 EXCEPT
            !.events = Append(@, Event(SYSTEM_TASK_EXCEPTION, message))]

TaskNames == {"backup_database"}
TaskUids == {"outpost-1"}
TaskResults ==
    { TaskResult(status, <<"done">>, uid) :
        status \in {SUCCESSFUL, WARNING}, uid \in {NoUid, "run-1"} }
TaskExceptions == {"boom", "connection refused"}

\* the exceptions a task catches and hands to with_error
CaughtExceptions == {"timeout"}

\* results built with an error: TaskResult(ERROR).with_error(exc)
TaskErrorResults ==
    { with_error(TaskResult(ERROR, <<>>, NoUid), exc, frames) :
        exc \in CaughtExceptions, frames \in 0..MaxFrames }

InitWorker ==
    worker \in { NewWorker(name, save_on_success) :
                    name \in TaskNames, save_on_success \in BOOLEAN }

WorkerOtherVars ==
    <<flow_policies, flow_mode, flow_bindings, sess, pe, store,
      legacy, outposts>>

\* the worker starts a run of the task on the instance it keeps
TaskStarts ==
    /\ worker.phase \in {"waiting", "returned"}
    /\ worker.runs < MaxRuns
    /\ worker' = [worker EXCEPT !.phase = "running", !.outcome = "none",
                                !.runs = @ + 1, !.saved = <<>>,
                                !.events = <<>>, !.set_in_run = <<>>,
                                !.exc = ""]
    /\ UNCHANGED WorkerOtherVars

\* the body of the task calls self.set_uid
TaskSetUid ==
    /\ worker.phase = "running"
    /\ \E uid \in TaskUids : worker' = set_uid(worker, uid)
    /\ UNCHANGED WorkerOtherVars

\* the body of the task calls self.set_status
TaskSetStatus ==
    /\ worker.phase = "running"
    /\ \E result \in TaskResults \cup TaskErrorResults :
          worker' = [set_status(worker, result) EXCEPT
                        !.set_in_run = <<result>>]
    /\ UNCHANGED WorkerOtherVars

\* the body of the task calls with_error on the result it has handed to
\* set_status in this run: self._result is that same object
TaskWithError ==
    /\ worker.phase = "running"
    /\ worker.set_in_run # <<>>
    /\ Len(worker.task.result[1].messages) < MaxTaskMessages
    /\ \E exc \in CaughtExceptions, frames \in 0..MaxFrames :
          worker' = [worker EXCEPT
                        !.task.result =
                            <<with_error(worker.task.result[1], exc, frames)>>,
                        !.set_in_run =
                            <<with_error(worker.set_in_run[1], exc, frames)>>]
    /\ UNCHANGED WorkerOtherVars

\* the body returns: the worker calls after_return
TaskReturns ==
    /\ worker.phase = "running"
    /\ worker' = [after_return(worker) EXCEPT
                     !.phase = "returned", !.outcome = "success"]
    /\ UNCHANGED WorkerOtherVars

\* the body raises: the worker calls on_failure and then after_return
TaskRaises ==
    /\ worker.phase = "running"
    /\ \E exc \in TaskExceptions :
          worker' = [after_return(on_failure(worker, exc)) EXCEPT
                        !.phase = "returned", !.outcome = "failure",
                        !.failures = @ + 1, !.exc = exc]
    /\ UNCHANGED WorkerOtherVars

(***************************************************************************)
(* Specifications                                                          *)
(***************************************************************************)
\* the subsystems a specification leaves alone
IdleWorker == [phase |-> "idle"]
IdleLegacy == [phase |-> "idle"]
IdleOutposts == [phase |-> "idle"]

Init ==
    /\ \E fp \in FlowPolicies : flow_policies = fp[1] /\ flow_mode = fp[2]
    /\ flow_bindings \in FlowStageBindings
    /\ \E ic \in InitialContexts :
          sess = [s \in Sessions |->
                     NewSession(s, IF s \in ActiveSessions THEN ic
                                   ELSE EmptyContext)]
    /\ pe = IdleEngine
    /\ store = IdleStore
    /\ worker = IdleWorker
    /\ legacy = IdleLegacy
    /\ outposts = IdleOutposts

Next ==
    \E s \in ActiveSessions :
        \/ RequestGet(s)
        \/ RequestPostValid(s)
        \/ RequestPostInvalid(s)
        \/ RequestPostRaises(s)

Spec == Init /\ [][Next]_vars

\* the policy engine alone: one instance over every small target
InitPolicyEngine ==
    /\ InitEngine
    /\ flow_policies = <<>>
    /\ flow_mode = "all"
    /\ flow_bindings = <<>>
    /\ sess = [s \in Sessions |-> NewSession(s, EmptyContext)]
    /\ store = IdleStore
    /\ worker = IdleWorker
    /\ legacy = IdleLegacy
    /\ outposts = IdleOutposts

NextPolicyEngine ==
    \/ EngineSetHttpRequest
    \/ EngineBuild
    \/ EngineResult
    \/ EngineWithPolicy

SpecPolicyEngine == InitPolicyEngine /\ [][NextPolicyEngine]_vars

\* one engine instance whose result is read again and again while the
\* policies of its target change
CachedTargets ==
    {bs \in SeqsUpTo(PolicyBindings, MaxPolicies) :
        \A i \in DOMAIN bs : bs[i].enabled /\ bs[i].order = 0}

InitEngineCache ==
    /\ pe \in {NewEngine(bs, m) : bs \in CachedTargets,
                                  m \in PolicyEngineModes}
    /\ flow_policies = <<>>
    /\ flow_mode = "all"
    /\ flow_bindings = <<>>
    /\ sess = [s \in Sessions |-> NewSession(s, EmptyContext)]
    /\ store = IdleStore
    /\ worker = IdleWorker
    /\ legacy = IdleLegacy
    /\ outposts = IdleOutposts

NextEngineCache == EngineBuild \/ EngineResult \/ PoliciesChange

SpecEngineCache == InitEngineCache /\ [][NextEngineCache]_vars

\* one engine instance that evaluates its bindings in parallel
ParallelTargets ==
    {bs \in SeqsUpTo(PolicyBindings, MaxPolicies) :
        \A i \in DOMAIN bs : bs[i].outcome.kind \in {"pass", "fail"}}

InitParallelEngine ==
    /\ pe \in {NewEngine(bs, m) : bs \in ParallelTargets,
                                  m \in PolicyEngineModes}
    /\ flow_policies = <<>>
    /\ flow_mode = "all"
    /\ flow_bindings = <<>>
    /\ sess = [s \in Sessions |-> NewSession(s, EmptyContext)]
    /\ store = IdleStore
    /\ worker = IdleWorker
    /\ legacy = IdleLegacy
    /\ outposts = IdleOutposts

NextParallelEngine == ProcessCompletes \/ EngineJoin \/ EngineResult

SpecParallelEngine == InitParallelEngine /\ [][NextParallelEngine]_vars

\* the worker alone: runs of one task on one instance
InitMonitoredTask ==
    /\ InitWorker
    /\ flow_policies = <<>>
    /\ flow_mode = "all"
    /\ flow_bindings = <<>>
    /\ sess = [s \in Sessions |-> NewSession(s, EmptyContext)]
    /\ pe = IdleEngine
    /\ store = IdleStore
    /\ legacy = IdleLegacy
    /\ outposts = IdleOutposts

NextMonitoredTask ==
    \/ TaskStarts
    \/ TaskSetUid
    \/ TaskSetStatus
    \/ TaskWithError
    \/ TaskReturns
    \/ TaskRaises

SpecMonitoredTask == InitMonitoredTask /\ [][NextMonitoredTask]_vars

\* two sessions of different users on one flow, each with the context its
\* caller supplies; the stage bindings of the flow carry no policies and
\* share their invalid_response_action
SessionFlows ==
    {f \in ExecutorFlows :
        \A i \in DOMAIN f :
            /\ f[i].policies = <<>>
            /\ f[i].invalid_response_action = f[1].invalid_response_action}

SessionContexts ==
    [s1 : InitialContexts,
     s2 : {Only(PLAN_CONTEXT_PENDING_USER_IDENTIFIER, "carol")}]

InitSessions ==
    /\ flow_policies = <<>>
    /\ flow_mode = "any"
    /\ flow_bindings \in SessionFlows
    /\ \E ic \in SessionContexts :
          sess = [s \in Sessions |-> NewSession(s, ic[s])]
    /\ pe = IdleEngine
    /\ store = IdleStore
    /\ worker = IdleWorker
    /\ legacy = IdleLegacy
    /\ outposts = IdleOutposts

NextSessions ==
    \E s \in Sessions :
        \/ RequestGet(s)
        \/ RequestPostValid(s)
        \/ RequestPostInvalid(s)
        \/ RequestPostRaises(s)
        \/ PlanCorrupted(s)

SpecSessions == InitSessions /\ [][NextSessions]_vars

\* one session on the flows whose stage bindings ask for their policies
\* at planning, at presentation, at both or never
InitReevaluate ==
    /\ flow_policies = <<>>
    /\ flow_mode = "any"
    /\ flow_bindings \in ReevaluatedFlows
    /\ \E ic \in InitialContexts :
          sess = [s \in Sessions |->
                     NewSession(s, IF s \in ActiveSessions THEN ic
                                   ELSE EmptyContext)]
    /\ pe = IdleEngine
    /\ store = IdleStore
    /\ worker = IdleWorker
    /\ legacy = IdleLegacy
    /\ outposts = IdleOutposts

SpecReevaluate == InitReevaluate /\ [][Next]_vars

\* the session store alone: one plan put into the session and got back
InitSessionStore ==
    /\ InitStore
    /\ flow_policies = <<>>
    /\ flow_mode = "all"
    /\ flow_bindings = <<>>
    /\ sess = [s \in Sessions |-> NewSession(s, EmptyContext)]
    /\ pe = IdleEngine
    /\ worker = IdleWorker
    /\ legacy = IdleLegacy
    /\ outposts = IdleOutposts

NextSessionStore == putPlan \/ getPlan

SpecSessionStore == InitSessionStore /\ [][NextSessionStore]_vars

(***************************************************************************)
(* Properties                                                              *)
(***************************************************************************)
\* a request of session s was handled in this step
Handled(s) == sess'[s] # sess[s]

\* ... and it was an invalid POST handed to a stage whose binding has
\* invalid_response_action a
PostInvalidOn(s, a) ==
    /\ Handled(s)
    /\ sess'[s].request = [method |-> "POST", valid |-> FALSE, raised |-> FALSE]
    /\ sess'[s].current # None
    /\ flow_bindings[sess'[s].current].invalid_response_action = a

\* ... and it was a valid POST handed to a stage
PostValid(s) ==
    /\ Handled(s)
    /\ sess'[s].request = [method |-> "POST", valid |-> TRUE, raised |-> FALSE]
    /\ sess'[s].current # None

\* the session was restarted by action a and has not replanned yet
RestartedBy(r, a) ==
    /\ r.state = "PLANNING" /\ r.via = "RESTARTING" /\ ~r.has_plan
    /\ r.current # None
    /\ flow_bindings[r.current].invalid_response_action = a

\* the plan context a request of session s finds
ContextFound(s) ==
    IF sess[s].has_plan THEN sess[s].context ELSE sess[s].initial_context

\* the entry of session s has been presented and is still the front
Pending(s) ==
    /\ sess[s].state = "STAGE_PENDING" /\ sess[s].has_plan
    /\ sess[s].bindings # <<>>
    /\ sess[s].current = Head(sess[s].bindings)

IsSuffix(a, b) ==
    \E k \in 0..Len(b) : a = SubSeq(b, k + 1, Len(b))

\* what the policies of a target must give, from the bindings alone
Effective(b) == (b.outcome.kind = "pass") <=> ~b.negate
Evaluated(bindings) == {i \in DOMAIN bindings : bindings[i].enabled}
ExpectedPassing(bindings, mode) ==
    \/ Evaluated(bindings) = {}
    \/ mode = "all" /\ \A i \in Evaluated(bindings) : Effective(bindings[i])
    \/ mode = "any" /\ \E i \in Evaluated(bindings) : Effective(bindings[i])

\* C1: an invalid POST on a binding with RESTART discards the plan and its
\* whole context, and the plan made by the next request starts from an
\* empty context.
C1_RestartDiscardsPlanAndContext ==
    [][\A s \in Sessions :
        /\ PostInvalidOn(s, RESTART) =>
              /\ sess'[s].state = "PLANNING" /\ sess'[s].via = "RESTARTING"
              /\ ~sess'[s].has_plan /\ sess'[s].bindings = <<>>
              /\ sess'[s].context = EmptyContext
              /\ sess'[s].initial_context = EmptyContext
        /\ (RestartedBy(sess[s], RESTART) /\ Handled(s)
              /\ sess'[s].state # "DENIED") =>
              /\ sess'[s].planned_context = EmptyContext
              /\ DOMAIN sess'[s].planned_context = {}]_vars

\* a session restarted by RESTART whose discarded plan had a context
C1_Witness ==
    \E s \in Sessions :
        /\ RestartedBy(sess[s], RESTART)
        /\ sess[s].planned_context # EmptyContext
        /\ sess[s].initial_context = EmptyContext

\* C2: an invalid POST on a binding with RESTART_WITH_CONTEXT discards the
\* stage sequence and hands every key and value of the context to the next
\* plan as its initial context.
C2_RestartWithContextKeepsContext ==
    [][\A s \in Sessions :
        /\ PostInvalidOn(s, RESTART_WITH_CONTEXT) =>
              /\ sess'[s].state = "PLANNING" /\ sess'[s].via = "RESTARTING"
              /\ ~sess'[s].has_plan /\ sess'[s].bindings = <<>>
              /\ \A k \in DOMAIN ContextFound(s) :
                    /\ k \in DOMAIN sess'[s].initial_context
                    /\ sess'[s].initial_context[k] = ContextFound(s)[k]
        /\ (RestartedBy(sess[s], RESTART_WITH_CONTEXT) /\ Handled(s)
              /\ sess'[s].state # "DENIED") =>
              \A k \in DOMAIN sess[s].initial_context :
                    /\ k \in DOMAIN sess'[s].planned_context
                    /\ sess'[s].planned_context[k]
                          = sess[s].initial_context[k]]_vars

\* a plan made after a restart with context: the pending user that a stage
\* of the discarded plan had set is in the context the new plan started from
C2_Witness ==
    \E s \in Sessions :
        /\ sess[s].has_plan /\ sess[s].state = "STAGE_PENDING"
        /\ PLAN_CONTEXT_PENDING_USER \in DOMAIN sess[s].planned_context
        /\ sess[s].planned_context[PLAN_CONTEXT_PENDING_USER] = "bob"

\* C3: an invalid POST on a binding with RETRY leaves the executor in
\* STAGE_PENDING on the same entry, with the plan as it was, and answers
\* with the challenge of that entry carrying the errors.
C3_RetryStaysOnEntry ==
    [][\A s \in Sessions :
        /\ FlowStageBinding(0).invalid_response_action = RETRY
        /\ PostInvalidOn(s, RETRY) =>
            /\ sess'[s].state = "STAGE_PENDING" /\ sess'[s].via = "none"
            /\ sess'[s].has_plan /\ sess'[s].bindings # <<>>
            /\ Head(sess'[s].bindings) = sess'[s].current
            /\ sess'[s].response.kind = "challenge"
            /\ sess'[s].response.stage = sess'[s].current
            /\ sess'[s].response.errors
            /\ Pending(s) =>
                  /\ sess'[s].bindings = sess[s].bindings
                  /\ sess'[s].current = sess[s].current
                  /\ sess'[s].context = sess[s].context]_vars

\* an invalid POST was answered with the challenge again, more entries left
C3_Witness ==
    \E s \in Sessions :
        /\ sess[s].state = "STAGE_PENDING"
        /\ sess[s].request = [method |-> "POST", valid |-> FALSE, raised |-> FALSE]
        /\ sess[s].response.kind = "challenge" /\ sess[s].response.errors
        /\ Len(sess[s].bindings) = 2 /\ sess[s].issued

\* C4: a valid POST pops the entry that was presented and nothing else, the
\* plan only ever loses entries from its front, a challenge is always that
\* of the front entry, and a valid POST completes the flow exactly when it
\* answered the last remaining entry.
C4_ValidPostPopsFront ==
    [][\A s \in Sessions :
        /\ PostValid(s) =>
              /\ sess'[s].via = "STAGE_DONE"
              /\ sess[s].has_plan =>
                    /\ sess'[s].current = Head(SkipFailing(sess[s].bindings))
                    /\ sess'[s].bindings = Tail(SkipFailing(sess[s].bindings))
              /\ Pending(s) => sess'[s].bindings = Tail(sess[s].bindings)
              /\ sess'[s].state = "COMPLETED" <=> sess'[s].bindings = <<>>
              /\ sess'[s].state \in {"COMPLETED", "STAGE_PENDING"}
              /\ sess'[s].response.kind =
                    IF sess'[s].bindings = <<>> THEN "done" ELSE "redirect"
        /\ (Handled(s) /\ sess[s].has_plan /\ sess'[s].has_plan) =>
              IsSuffix(sess'[s].bindings, sess[s].bindings)
        /\ sess'[s].response.kind = "challenge" =>
              /\ sess'[s].bindings # <<>>
              /\ sess'[s].response.stage = Head(sess'[s].bindings)]_vars

\* the flow of two stages is complete: the second entry was accepted last
C4_Witness ==
    \E s \in Sessions :
        /\ sess[s].state = "COMPLETED" /\ sess[s].via = "STAGE_DONE"
        /\ Len(flow_bindings) = 2 /\ sess[s].current = 2
        /\ sess[s].issued

\* C5: when the flow's own policy bindings do not pass, the request that
\* plans is denied, and a denied session has never been issued a challenge
\* and holds no plan.
C5_DeniedWithoutChallenge ==
    [][\A s \in Sessions :
        /\ (Handled(s) /\ ~sess[s].has_plan
              /\ ~ExpectedPassing(flow_policies, flow_mode)) =>
              /\ sess'[s].state = "DENIED"
              /\ sess'[s].response.kind = "denied"
        /\ sess'[s].state = "DENIED" =>
              /\ ~sess'[s].issued /\ ~sess'[s].has_plan
              /\ sess'[s].current = None /\ sess'[s].bindings = <<>>
              /\ sess'[s].response.kind # "challenge"]_vars

\* a session denied on a POST to a flow that has stages
C5_Witness ==
    \E s \in Sessions :
        /\ sess[s].state = "DENIED" /\ sess[s].request.method = "POST"
        /\ Len(flow_bindings) = 2

\* the engine instance has computed its result
ResultRead == pe.phase \in {"read", "looked_up"}

\* C6: in mode ALL the result passes exactly when every evaluated binding
\* passes after its negate flag is applied.
C6_ModeAllPassesIffEveryBindingPasses ==
    (ResultRead /\ pe.mode = "all") =>
        (pe.result.passing <=>
            \A i \in Evaluated(pe.bindings) : Effective(pe.bindings[i]))

\* mode ALL over two evaluated bindings that pass only thanks to negation
C6_Witness ==
    /\ ResultRead /\ pe.mode = "all" /\ pe.result.passing
    /\ Len(pe.results) = 2
    /\ \E i \in DOMAIN pe.bindings :
          pe.bindings[i].negate /\ pe.bindings[i].outcome.kind = "raise"

\* C7: in mode ANY over a non-empty set of evaluated bindings the result
\* passes exactly when at least one binding passes after negation.
C7_ModeAnyPassesIffSomeBindingPasses ==
    (ResultRead /\ pe.mode = "any" /\ Evaluated(pe.bindings) # {}) =>
        (pe.result.passing <=>
            \E i \in Evaluated(pe.bindings) : Effective(pe.bindings[i]))

\* mode ANY over two evaluated bindings of which exactly one passes
C7_Witness ==
    /\ ResultRead /\ pe.mode = "any" /\ pe.result.passing
    /\ Len(pe.results) = 2
    /\ ~pe.results[1].passing /\ pe.results[2].passing

\* C8: a target without enabled bindings passes in either mode, and
\* with_policy returns such a flow.
C8_NoBindingsAlwaysPasses ==
    Evaluated(pe.bindings) = {} =>
        /\ ResultRead => (pe.result.passing /\ pe.result.messages = <<>>)
        /\ pe.phase = "looked_up" => pe.found = TargetFlow(pe.bindings, pe.mode).slug

\* with_policy has passed over a denied flow and returned the flow behind
\* it, in mode ANY and with disabled bindings only
C8_Witness ==
    /\ pe.phase = "looked_up" /\ pe.mode = "any"
    /\ Len(pe.bindings) = 2 /\ Evaluated(pe.bindings) = {}
    /\ DeniedFlow \in pe.flows
    /\ pe.found = 2

\* what the evaluator must return for an outcome, before negation
ExpectedMessages(outcome) ==
    IF outcome.kind = "timeout" THEN <<"timeout">> ELSE outcome.messages

\* C9: the negate flag of a binding flips the pass/fail value of the
\* evaluator's result and keeps its messages, and negating twice gives the
\* result back.
C9_NegateFlipsOnlyPassing ==
    pe.phase # "new" =>
        \A k \in DOMAIN pe.results :
            LET r == pe.results[k]
                b == pe.bindings[r.source_binding]
            IN  /\ r.messages = ExpectedMessages(b.outcome)
                /\ r.passing = Effective(b)
                /\ Negate(r).passing = ~r.passing
                /\ Negate(r).messages = r.messages
                /\ Negate(Negate(r)) = r

\* a negated binding whose policy passes with a message: the result fails
\* and still carries the message
C9_Witness ==
    /\ pe.phase = "built"
    /\ \E k \in DOMAIN pe.results :
          /\ pe.bindings[pe.results[k].source_binding].negate
          /\ ~pe.results[k].passing
          /\ pe.results[k].messages = <<"welcome">>

\* C10: the stage sequence of a plan has strictly ascending order values,
\* no two entries share an order value.
C10_PlanOrdersStrictlyAscending ==
    \A s \in Sessions :
        sess[s].has_plan =>
            \A k, l \in DOMAIN sess[s].bindings :
                k < l => flow_bindings[sess[s].bindings[k]].order
                            < flow_bindings[sess[s].bindings[l]].order

Range(f) == {f[k] : k \in DOMAIN f}

\* C11: the planner omits a stage binding from the plan exactly when its
\* evaluate_on_plan is set and the policy bindings of that binding do not
\* pass; a binding with evaluate_on_plan unset is in the plan whatever its
\* policies give, and no binding is in the plan twice.
C11_OmittedIffEvaluatedAndFailing ==
    \A s \in Sessions :
        sess[s].has_plan =>
            /\ \A i \in DOMAIN flow_bindings :
                  i \notin Range(sess[s].planned) <=>
                      /\ flow_bindings[i].evaluate_on_plan
                      /\ ~ExpectedPassing(flow_bindings[i].policies,
                                          flow_bindings[i].policy_engine_mode)
            /\ Range(sess[s].planned) \subseteq DOMAIN flow_bindings
            /\ \A k, l \in DOMAIN sess[s].planned :
                  sess[s].planned[k] = sess[s].planned[l] => k = l

\* a plan without the binding whose negated policy passes and with the
\* binding whose failing policy is not looked at during planning
C11_Witness ==
    \E s \in Sessions :
        /\ sess[s].has_plan /\ Len(flow_bindings) = 2
        /\ sess[s].planned = <<2>>
        /\ flow_bindings[1].evaluate_on_plan
        /\ flow_bindings[1].policies = <<NegatedPassingBinding>>
        /\ ~flow_bindings[2].evaluate_on_plan
        /\ flow_bindings[2].policies = <<FailingBinding>>

\* C12: a plan whose stage sequence is empty after the planner's filtering
\* completes the flow at once: the executor is in COMPLETED with the
\* redirect to the success destination, it has issued no challenge, and it
\* is neither denied nor in error.
C12_EmptyPlanCompletes ==
    \A s \in Sessions :
        (sess[s].has_plan /\ sess[s].planned = <<>>) =>
            /\ sess[s].state = "COMPLETED"
            /\ sess[s].response.kind = "done"
            /\ sess[s].bindings = <<>> /\ sess[s].current = None
            /\ ~sess[s].issued

\* a flow of two stages whose bindings were both filtered out, completed by
\* the request that planned it
C12_Witness ==
    \E s \in Sessions :
        /\ sess[s].has_plan /\ sess[s].planned = <<>>
        /\ Len(flow_bindings) = 2
        /\ sess[s].state = "COMPLETED"
        /\ sess[s].request.method = "POST"

\* a request of session s was handled in this step: a POST on which the
\* validator raised, handed to a stage whose binding has
\* invalid_response_action a
PostRaisesOn(s, a) ==
    /\ Handled(s)
    /\ sess'[s].request.method = "POST" /\ sess'[s].request.raised
    /\ sess'[s].current # None
    /\ flow_bindings[sess'[s].current].invalid_response_action = a

\* C13: a POST on which the validator of the stage raises is handled as an
\* invalid response is: by the invalid_response_action of the current
\* binding (the challenge with errors again, or a restart without or with
\* the context), without popping the entry, and no error is the reply.
C13_RaisingValidatorIsInvalidResponse ==
    [][\A s \in Sessions :
        /\ PostRaisesOn(s, RETRY) =>
              /\ sess'[s].state = "STAGE_PENDING"
              /\ sess'[s].response.kind = "challenge"
              /\ sess'[s].response.errors
              /\ Head(sess'[s].bindings) = sess'[s].current
        /\ PostRaisesOn(s, RESTART) =>
              /\ sess'[s].state = "PLANNING" /\ ~sess'[s].has_plan
              /\ sess'[s].initial_context = EmptyContext
        /\ PostRaisesOn(s, RESTART_WITH_CONTEXT) =>
              /\ sess'[s].state = "PLANNING" /\ ~sess'[s].has_plan
              /\ sess'[s].initial_context = ContextFound(s)
        /\ (Handled(s) /\ sess'[s].request.raised) =>
              sess'[s].response.kind # "error"]_vars

\* the check of the policy of binding b raises or runs into the timeout
Broken(b) == b.outcome.kind \in {"raise", "timeout"}

\* C14: a policy whose check raises or exceeds the timeout gives a failing
\* result with a diagnostic message for its own binding and nothing else:
\* the engine still has exactly one result for every enabled binding, the
\* results of the sibling bindings are what their own policies give, and
\* the aggregate is computed from all of them and carries their messages.
C14_BrokenPolicyFailsAlone ==
    pe.phase # "new" =>
        /\ {pe.results[k].source_binding : k \in DOMAIN pe.results}
              = Evaluated(pe.bindings)
        /\ Len(pe.results) = Cardinality(Evaluated(pe.bindings))
        /\ \A k \in DOMAIN pe.results :
              LET r == pe.results[k]
                  b == pe.bindings[r.source_binding]
              IN  /\ Broken(b) =>
                        /\ r.passing = b.negate
                        /\ r.messages # <<>>
                        /\ b.outcome.kind = "timeout" =>
                              r.messages = <<"timeout">>
                  /\ ~Broken(b) =>
                        /\ r.passing = Effective(b)
                        /\ r.messages = b.outcome.messages
        /\ ResultRead =>
              /\ pe.result.source_results = pe.results
              /\ pe.result.passing
                    = ExpectedPassing(pe.bindings, pe.mode)
              /\ \A k \in DOMAIN pe.results :
                    Range(pe.results[k].messages)
                        \subseteq Range(pe.result.messages)

\* mode ANY over a policy that raises and a sibling that passes: the
\* aggregate passes and carries the diagnostic and the sibling's message
C14_Witness ==
    /\ ResultRead /\ pe.mode = "any" /\ pe.result.passing
    /\ Len(pe.results) = 2
    /\ pe.bindings[pe.results[1].source_binding].outcome.kind = "raise"
    /\ ~pe.bindings[pe.results[1].source_binding].negate
    /\ ~pe.results[1].passing
    /\ pe.results[2].passing
    /\ pe.result.messages = <<"boom", "welcome">>

\* C15: a request that finds the persisted plan of its session corrupt
\* discards it and plans again from the beginning in that same request:
\* the request is handled on the first entry of a new plan of the whole
\* flow with none of the old context (and may restart that plan in turn),
\* no error of the store is the reply, and no other session is touched,
\* neither by the corruption nor by the request.
C15_CorruptPlanIsReplanned ==
    [][\A s \in Sessions :
        /\ (Handled(s) /\ sess[s].corrupt) =>
              /\ ~sess'[s].corrupt
              /\ sess'[s].state # "DENIED"
              /\ sess'[s].policy_request = PlannerRequest(s, EmptyContext)
              /\ flow_bindings # <<>> => sess'[s].current = 1
              /\ sess'[s].has_plan =>
                    /\ Range(sess'[s].planned) = DOMAIN flow_bindings
                    /\ IsSuffix(sess'[s].bindings, sess'[s].planned)
                    /\ sess'[s].planned_context = EmptyContext
                    /\ DOMAIN sess'[s].context
                          \subseteq {PLAN_CONTEXT_PENDING_USER}
              /\ ~sess'[s].has_plan =>
                    /\ sess'[s].via = "RESTARTING"
                    /\ sess'[s].initial_context = EmptyContext
              /\ ~sess'[s].request.raised => sess'[s].response.kind # "error"
              /\ \A t \in Sessions \ {s} : sess'[t] = sess[t]
        /\ (sess'[s].corrupt /\ ~sess[s].corrupt) =>
              /\ sess' = [sess EXCEPT ![s].corrupt = TRUE]
              /\ sess[s].has_plan]_vars

\* in a flow that only retries, the session that was planned with carol's
\* identifier holds a plan whose context started empty: its plan was lost
\* and made again, while the other session went on with its own context
C15_Witness ==
    /\ Len(flow_bindings) = 2
    /\ flow_bindings[1].invalid_response_action = RETRY
    /\ sess["s2"].has_plan /\ ~sess["s2"].corrupt
    /\ sess["s2"].planned_context = EmptyContext
    /\ Len(sess["s2"].bindings) = 2
    /\ sess["s1"].has_plan /\ Len(sess["s1"].bindings) = 1
    /\ PLAN_CONTEXT_PENDING_USER \in DOMAIN sess["s1"].context

\* C19: a step taken for one session leaves every other session as it was,
\* its stage sequence and its context map included; the definitions of
\* the flow, its policies and its stage bindings never change; and the
\* policy request of a session's evaluation is for the user of that
\* session and holds the context of that session's plan and nothing else.
C19_SessionsAreIndependent ==
    [][/\ \A s \in Sessions :
            Handled(s) =>
                \A t \in Sessions \ {s} :
                    /\ sess'[t].bindings = sess[t].bindings
                    /\ sess'[t].context = sess[t].context
                    /\ sess'[t] = sess[t]
       /\ flow_policies' = flow_policies
       /\ flow_mode' = flow_mode
       /\ flow_bindings' = flow_bindings
       /\ \A s \in Sessions :
            sess'[s].has_plan =>
                /\ sess'[s].policy_request.user = s
                /\ sess'[s].policy_request.context
                      = sess'[s].planned_context]_vars

\* two sessions at different places of the same flow, each with a context
\* of its own
C19_Witness ==
    /\ Len(flow_bindings) = 2
    /\ sess["s1"].has_plan /\ sess["s1"].bindings = <<2>>
    /\ sess["s1"].via = "STAGE_DONE"
    /\ sess["s1"].context
          = Merge(Only(PLAN_CONTEXT_PENDING_USER_IDENTIFIER, "alice"),
                  Only(PLAN_CONTEXT_PENDING_USER, "bob"))
    /\ sess["s2"].has_plan /\ sess["s2"].bindings = <<1, 2>>
    /\ sess["s2"].context
          = Only(PLAN_CONTEXT_PENDING_USER_IDENTIFIER, "carol")
    /\ sess["s2"].response.kind = "challenge"

\* C20: the context of a plan as the planner returned it is the
\* initial_context the caller supplied, key for key and value for value,
\* whatever the session's earlier plans or the other sessions hold.
C20_PlanContextIsInitialContext ==
    \A s \in Sessions :
        sess[s].has_plan =>
            /\ DOMAIN sess[s].planned_context = DOMAIN sess[s].initial_context
            /\ \A k \in DOMAIN sess[s].initial_context :
                  sess[s].planned_context[k] = sess[s].initial_context[k]
            /\ sess[s].planned_context = sess[s].initial_context

\* a session that was restarted by RESTART after a stage had set the
\* pending user, planned again from an empty context, next to a session
\* whose plan holds alice's identifier
C20_Witness ==
    /\ Len(flow_bindings) = 2
    /\ flow_bindings[2].invalid_response_action = RESTART
    /\ sess["s2"].has_plan /\ sess["s2"].planned_context = EmptyContext
    /\ sess["s2"].initial_context = EmptyContext
    /\ sess["s2"].response.kind = "challenge"
    /\ sess["s1"].has_plan
    /\ sess["s1"].planned_context
          = Only(PLAN_CONTEXT_PENDING_USER_IDENTIFIER, "alice")

\* a GET of session s was handled in this step
GetHandled(s) == Handled(s) /\ sess'[s].request.method = "GET"

\* C17: a GET while a stage is pending is answered with the challenge of
\* that stage, without errors, also when the challenge built is invalid,
\* and it leaves the stage sequence, its front entry and the context as
\* they were; after a GET that returned a challenge the stage is pending,
\* so this holds for any number of GETs.
C17_GetReturnsChallengeKeepsPlan ==
    [][\A s \in Sessions :
        /\ (GetHandled(s) /\ Pending(s)) =>
              /\ sess'[s].state = "STAGE_PENDING" /\ sess'[s].has_plan
              /\ sess'[s].bindings = sess[s].bindings
              /\ Head(sess'[s].bindings) = Head(sess[s].bindings)
              /\ sess'[s].current = sess[s].current
              /\ sess'[s].context = sess[s].context
              /\ sess'[s].response.kind = "challenge"
              /\ sess'[s].response.stage = Head(sess[s].bindings)
              /\ ~sess'[s].response.errors
        /\ (GetHandled(s) /\ sess'[s].response.kind = "challenge") =>
              /\ sess'[s].state = "STAGE_PENDING" /\ sess'[s].has_plan
              /\ sess'[s].bindings # <<>>
              /\ sess'[s].current = Head(sess'[s].bindings)
        /\ (GetHandled(s) /\ sess'[s].state = "STAGE_PENDING") =>
              sess'[s].response.kind = "challenge"]_vars

\* a GET on the second entry of a plan, after the first was accepted, that
\* was answered with a challenge that is not valid
C17_Witness ==
    \E s \in Sessions :
        /\ sess[s].state = "STAGE_PENDING"
        /\ sess[s].request.method = "GET"
        /\ sess[s].response.kind = "challenge"
        /\ ~sess[s].response.challenge_ok
        /\ sess[s].planned = <<1, 2>> /\ sess[s].bindings = <<2>>
        /\ sess[s].response.stage = 2

\* C18: the executor is in COMPLETED only with an empty stage sequence,
\* and once a session is in COMPLETED or in DENIED nothing of it changes
\* any more: no transition is taken and no challenge is issued.
C18_TerminalStates ==
    [][\A s \in Sessions :
        /\ sess'[s].state = "COMPLETED" =>
              /\ sess'[s].bindings = <<>> /\ sess'[s].has_plan
              /\ sess'[s].response.kind = "done"
        /\ sess'[s].state = "DENIED" => sess'[s].response.kind = "denied"
        /\ sess[s].state \in {"COMPLETED", "DENIED"} =>
              /\ sess'[s] = sess[s]
              /\ sess[s].response.kind # "challenge"]_vars

\* a session that went through both stages of its plan and is complete
C18_Witness ==
    \E s \in Sessions :
        /\ sess[s].state = "COMPLETED" /\ sess[s].bindings = <<>>
        /\ Len(sess[s].planned) = 2
        /\ sess[s].issued /\ sess[s].response.kind = "done"

\* C16: a plan that was serialized into the session and deserialized again
\* has the same entries in the same order, in-memory stages with the view
\* they were made for included, and a context map with the same keys and
\* values; what is in the session holds no class, only names.
C16_PlanRoundTrip ==
    /\ store.phase = "loaded" =>
          /\ Len(store.loaded.bindings) = Len(store.plan.bindings)
          /\ \A k \in DOMAIN store.plan.bindings :
                /\ store.loaded.bindings[k] = store.plan.bindings[k]
                /\ type(store.loaded.bindings[k].stage)
                      = type(store.plan.bindings[k].stage)
          /\ DOMAIN store.loaded.context = DOMAIN store.plan.context
          /\ \A key \in DOMAIN store.plan.context :
                store.loaded.context[key] = store.plan.context[key]
          /\ store.loaded = store.plan
    /\ store.phase \in {"stored", "loaded"} =>
          /\ store.data.ok
          /\ \A k \in DOMAIN store.data.bindings :
                \A a \in DOMAIN store.data.bindings[k][1].dict :
                    store.data.bindings[k][1].dict[a][1] = "class"

\* a plan of a saved stage followed by an in-memory stage, with both keys
\* in its context, as it came back from the session
C16_Witness ==
    /\ store.phase = "loaded"
    /\ Len(store.loaded.bindings) = 2
    /\ store.loaded.bindings[1].stage = Stage("identification")
    /\ type(store.loaded.bindings[2].stage) \in StageViews
    /\ store.loaded.bindings[2].stage.name = ""
    /\ DOMAIN store.loaded.context
          = {PLAN_CONTEXT_PENDING_USER, PLAN_CONTEXT_PENDING_USER_IDENTIFIER}

\* the entries of the plan of r that have been its front at a request:
\* those no longer in the plan and the one presented
Reached(r) ==
    {i \in Range(r.planned) :
        \/ i \notin Range(r.bindings)
        \/ r.state = "STAGE_PENDING" /\ r.bindings # <<>>
              /\ i = Head(r.bindings) /\ r.current = i}

\* C21: an entry whose binding has re_evaluate_policies has its policies
\* run again when it is the front of the plan, before its challenge is
\* issued: a challenge of such an entry is only ever issued after the
\* re-evaluation, and only when the policies pass; entries without the flag
\* are never re-evaluated.
C21_ReevaluatedBeforeChallenge ==
    \A s \in Sessions :
        LET r == sess[s]
        IN  /\ \A i \in r.reevaluated : flow_bindings[i].re_evaluate_policies
            /\ r.has_plan =>
                  \A i \in Reached(r) :
                      flow_bindings[i].re_evaluate_policies
                          => i \in r.reevaluated
            /\ (r.response.kind = "challenge"
                   /\ flow_bindings[r.response.stage].re_evaluate_policies) =>
                  /\ r.response.stage \in r.reevaluated
                  /\ ExpectedPassing(
                         flow_bindings[r.response.stage].policies,
                         flow_bindings[r.response.stage].policy_engine_mode)

\* the challenge of a flagged entry is out, after the flagged entry before
\* it was re-evaluated and skipped and the entry itself was re-evaluated
C21_Witness ==
    \E s \in Sessions :
        /\ sess[s].response.kind = "challenge"
        /\ sess[s].response.stage = 2
        /\ sess[s].reevaluated = {1, 2}
        /\ sess[s].planned = <<1, 2>>
        /\ sess[s].bindings = <<2>>

\* C22: an engine instance computes its result once: every read after the
\* first returns the PolicyResult the first read returned and leaves the
\* results of the evaluations as they are, whatever the policies of the
\* target would return by now.
C22_ResultComputedOnce ==
    [][(pe.reads >= 1 /\ pe'.reads = pe.reads + 1) =>
          /\ pe'.result = pe.result
          /\ pe'.results = pe.results
          /\ pe'.result.source_results = pe.results
          /\ pe'.request = pe.request]_vars

\* the result was read a second time after the policies had changed, and an
\* evaluation at that time would not have passed where the result passes
C22_Witness ==
    /\ pe.phase = "read" /\ pe.reads = 2 /\ pe.drifted
    /\ pe.result.passing
    /\ ~ExpectedPassing(CurrentBindings(pe), pe.mode)

\* C23: one run of the engine evaluates the enabled bindings and no other,
\* each once, by order ascending and by creation among equal orders; what a
\* policy writes into request.context is there for every policy evaluated
\* after it in the run and for none evaluated before it.
C23_ContextWritesVisibleToLaterPolicies ==
    pe.phase \in {"built", "read", "looked_up"} =>
        LET todo == [k \in DOMAIN pe.results |->
                        pe.results[k].source_binding]
        IN  /\ Range(todo) = Evaluated(pe.bindings)
            /\ Len(todo) = Cardinality(Evaluated(pe.bindings))
            /\ \A k, l \in DOMAIN todo :
                  k < l =>
                      \/ pe.bindings[todo[k]].order
                            < pe.bindings[todo[l]].order
                      \/ /\ pe.bindings[todo[k]].order
                               = pe.bindings[todo[l]].order
                         /\ todo[k] < todo[l]
            /\ DOMAIN pe.seen = DOMAIN todo
            /\ \A k \in DOMAIN todo :
                  /\ DOMAIN pe.seen[k] \ {"geoip"}
                        = {PolicyWrites(todo[j]) : j \in 1..(k - 1)}
                  /\ "geoip" \in DOMAIN pe.seen[k]
                        <=> "geoip" \in DOMAIN pe.request.context
            /\ DOMAIN pe.request.context \ {"geoip"}
                  = {PolicyWrites(i) : i \in Evaluated(pe.bindings)}

\* the binding created second has the lower order: its policy ran first on
\* an empty context, and the policy of the first found its write
C23_Witness ==
    /\ pe.phase = "built" /\ Len(pe.results) = 2
    /\ pe.bindings[1].order > pe.bindings[2].order
    /\ pe.results[1].source_binding = 2
    /\ DOMAIN pe.seen[1] = {}
    /\ DOMAIN pe.seen[2] = {"binding_2"}

\* the messages the enabled bindings give, in the order of the bindings
RECURSIVE MessagesInOrder(_, _)
MessagesInOrder(bindings, todo) ==
    IF todo = <<>> THEN <<>>
    ELSE ExpectedMessages(bindings[Head(todo)].outcome)
             \o MessagesInOrder(bindings, Tail(todo))

\* C24: when the bindings of a target are evaluated in parallel, the
\* aggregate passes or fails as the bindings alone decide, whatever the
\* order the evaluations finish in, and the messages of the result are in
\* the order of the bindings, not in the order of completion.
C24_ParallelRunIsDeterministic ==
    /\ pe.phase \in {"built", "read"} =>
          /\ Range(pe.completed) = Evaluated(pe.bindings)
          /\ Len(pe.results) = Len(pe.completed)
          /\ \A k, l \in DOMAIN pe.results :
                k < l =>
                    LET a == pe.bindings[pe.results[k].source_binding]
                        b == pe.bindings[pe.results[l].source_binding]
                    IN  \/ a.order < b.order
                        \/ /\ a.order = b.order
                           /\ pe.results[k].source_binding
                                 < pe.results[l].source_binding
    /\ pe.phase = "read" =>
          /\ pe.result.passing = ExpectedPassing(pe.bindings, pe.mode)
          /\ pe.result.messages
                = MessagesInOrder(pe.bindings, EnabledBindings(pe.bindings))

\* the evaluation of the second binding finished first, the two give
\* different messages, and the result has them in the order of the bindings
C24_Witness ==
    /\ pe.phase = "read"
    /\ pe.completed = <<2, 1>>
    /\ pe.bindings[1].order <= pe.bindings[2].order
    /\ pe.result.messages = <<"denied", "welcome">>

\* a run of the task has ended
RunEnded(outcome) == worker.phase = "returned" /\ worker.outcome = outcome

\* C26: the TaskInfo saved for a run carries the TaskResult that the last
\* set_status of that same run was handed, and a run that returns without
\* a set_status saves no TaskInfo, whatever earlier runs on the instance
\* have set.
C26_SavedResultIsOfSameRun ==
    RunEnded("success") =>
        /\ \A k \in DOMAIN worker.saved :
              /\ worker.set_in_run # <<>>
              /\ worker.saved[k].info.result.status
                    = worker.set_in_run[1].status
              /\ worker.saved[k].info.result.messages
                    = worker.set_in_run[1].messages
        /\ worker.set_in_run = <<>> => worker.saved = <<>>

\* C27: a task with save_on_success unset is listed only if it failed: a
\* run that returns writes no TaskInfo, a run that fails writes one, and
\* the cache holds a TaskInfo of the task only once a run has failed.
C27_SavedOnlyOnFailure ==
    ~worker.task.save_on_success =>
        /\ RunEnded("success") => worker.saved = <<>>
        /\ RunEnded("failure") =>
              /\ Len(worker.saved) = 1
              /\ worker.saved[1].key \in DOMAIN worker.cache
        /\ worker.failures = 0 <=> DOMAIN worker.cache = {}

\* a run that set a status and returned wrote nothing, and the task is
\* listed by the run before it, which failed
C27_Witness ==
    /\ ~worker.task.save_on_success
    /\ RunEnded("success") /\ worker.set_in_run # <<>>
    /\ worker.saved = <<>>
    /\ worker.failures = 1 /\ DOMAIN worker.cache # {}

\* C28: a run that fails without having set a result has on_failure save a
\* TaskInfo with status ERROR, the text of the exception as its message and
\* the uid given to set_uid, under the key task_<name>_<uid>, or
\* task_<name> without a uid, and record exactly one SYSTEM_TASK_EXCEPTION
\* event.
C28_FailureWithoutResultSavesError ==
    (RunEnded("failure") /\ worker.set_in_run = <<>>) =>
        /\ worker.saved # <<>>
        /\ LET s == worker.saved[1]
               name == worker.task.name
           IN  /\ s.info.result.status = 4
               /\ s.info.result.messages = <<worker.exc>>
               /\ s.info.result.uid = worker.task.uid
               /\ s.key = IF worker.task.uid = NoUid THEN <<"task", name>>
                          ELSE <<"task", name, worker.task.uid>>
               /\ s.key \in DOMAIN worker.cache
               /\ worker.cache[s.key] = s.info
        /\ Len(worker.events) = 1
        /\ worker.events[1].action = "system_task_exception"

\* C29: Flow.with_policy returns the first flow, by slug ascending, that
\* matches the filter and whose policies pass for the request; it returns
\* None exactly when no matching flow passes, and never a flow whose
\* policies fail.
C29_WithPolicyFirstPassingBySlug ==
    pe.phase = "looked_up" =>
        LET Passes(f) == ExpectedPassing(f.bindings, f.mode)
        IN  /\ pe.found = None <=> \A f \in pe.flows : ~Passes(f)
            /\ pe.found # None =>
                  \E f \in pe.flows :
                      /\ f.slug = pe.found
                      /\ Passes(f)
                      /\ \A g \in pe.flows : g.slug < f.slug => ~Passes(g)

\* two matching flows pass and the one with the lower slug is returned; its
\* policies are two bindings in mode ALL
C29_Witness ==
    /\ pe.phase = "looked_up"
    /\ OpenFlow \in pe.flows
    /\ pe.found = 2
    /\ pe.mode = "all" /\ Cardinality(Evaluated(pe.bindings)) = 2

\* C30: get_pending_user reads the plan context and nothing else of the
\* plan: for display, the identifier in the context gives a new User of
\* that name; otherwise the pending user of the context is returned, and
\* without one the user of the request; the context is as the request
\* found it.
C30_PendingUserPrecedence ==
    [][\A s \in Sessions :
        (Handled(s) /\ sess'[s].response.kind = "challenge") =>
            LET c == sess'[s].context
                identifier ==
                    PLAN_CONTEXT_PENDING_USER_IDENTIFIER \in DOMAIN c
                pending == PLAN_CONTEXT_PENDING_USER \in DOMAIN c
                matched ==
                    IF pending
                    THEN [username |-> c[PLAN_CONTEXT_PENDING_USER],
                          email |-> "user@example.org"]
                    ELSE [username |-> s, email |-> "user@example.org"]
                entered ==
                    [username |-> c[PLAN_CONTEXT_PENDING_USER_IDENTIFIER],
                     email |-> ""]
            IN  /\ c = IF sess[s].has_plan /\ ~sess[s].corrupt
                       THEN sess[s].context
                       ELSE sess'[s].planned_context
                /\ get_pending_user(c, FALSE, s) = matched
                /\ get_pending_user(c, TRUE, s)
                      = IF identifier THEN entered ELSE matched
                /\ sess'[s].response.pending_user
                      = IF identifier THEN entered.username
                        ELSE matched.username]_vars

\* a challenge that shows what the user entered although a stage has set
\* the matched user since
C30_Witness ==
    \E s \in Sessions :
        /\ sess[s].response.kind = "challenge"
        /\ sess[s].response.pending_user = "alice"
        /\ PLAN_CONTEXT_PENDING_USER \in DOMAIN sess[s].context
        /\ sess[s].context[PLAN_CONTEXT_PENDING_USER] = "bob"

\* ---------------------------------------------------------------------
\* Outposts: the websocket consumer (authentik/outposts/channels.py)
\* ---------------------------------------------------------------------

MaxMessages == 2     \* messages one consumer receives

\* WebsocketMessageInstruction
ACK == 0
HELLO == 1
TRIGGER_UPDATE == 2
Instructions == {ACK, HELLO, TRIGGER_UPDATE}

\* WebsocketMessage: args holds the "uuid" argument as <<uuid>>, or <<>>
\* when the message carries none
WebsocketMessage(instruction, uuid) == [instruction |-> instruction, args |-> [uuid |-> uuid]]

\* msg.args.get("uuid", default)
ArgsGetUuid(args, default) == IF args.uuid = <<>> THEN default ELSE args.uuid[1]

Channels == {"ch1", "ch2"}
OutpostNames == {"o1", "o2"}
OutpostUsers == {"service", "anonymous"}
InstanceUuids == {<<>>, <<"A">>, <<"B">>, <<"">>}
Messages == {WebsocketMessage(i, u) : i \in Instructions, u \in InstanceUuids}

NoOutpost == ""

\* a consumer before connect: the class attributes outpost = None,
\* last_uid = None, first_msg = False (None is the empty string); status is
\* the state of the socket, sent what send_json has written to it, user
\* and pk the scope's user and the outpost named in the URL, counted the
\* label of the gauge the consumer has incremented
OutpostConsumer(channel_name) ==
    [channel_name |-> channel_name, outpost |-> NoOutpost, last_uid |-> "",
     first_msg |-> FALSE, status |-> "new", sent |-> <<>>, received |-> 0,
     user |-> "", pk |-> "", counted |-> <<>>]

\* what the last handler did: the exception it raised, whether it looked an
\* OutpostState up, whether it saved one, how many messages it sent
Handler(op, channel, msg, raised, read, saved, sent) ==
    [op |-> op, channel |-> channel, msg |-> msg, raised |-> raised,
     read |-> read, saved |-> saved, sent |-> sent]

NoMessage == WebsocketMessage(ACK, <<>>)
NoHandler == Handler("", "", NoMessage, "", FALSE, FALSE, 0)

\* the cache of OutpostStates keyed by <<outpost, uid>>, the gauge keyed
\* by its labels <<outpost, uid>>, the messages on their way to a consumer
NewOutposts ==
    [phase |-> "run",
     consumers |-> [c \in Channels |-> OutpostConsumer(c)],
     cache |-> <<>>, gauge |-> <<>>,
     inbox |-> [c \in Channels |-> <<>>],
     budget |-> 0,
     last |-> NoHandler]

\* OutpostState.for_instance_uid: the cached state, or a fresh one
for_instance_uid(cache, outpost, uid) ==
    IF <<outpost, uid>> \in DOMAIN cache
    THEN cache[<<outpost, uid>>]
    ELSE [uid |-> uid, channel_ids |-> <<>>]

\* OutpostState.save
state_save(cache, outpost, state) ==
    [k \in DOMAIN cache \cup {<<outpost, state.uid>>} |->
        IF k = <<outpost, state.uid>> THEN state ELSE cache[k]]

\* list.remove: drops the first occurrence
RECURSIVE remove(_, _)
remove(list, x) ==
    IF list = <<>> THEN <<>>
    ELSE IF Head(list) = x THEN Tail(list)
    ELSE <<Head(list)>> \o remove(Tail(list), x)

\* GAUGE_OUTPOSTS_CONNECTED.labels(outpost, uid): a label starts at zero
GaugeValue(gauge, label) == IF label \in DOMAIN gauge THEN gauge[label] ELSE 0

GaugeAdd(gauge, label, amount) ==
    [k \in DOMAIN gauge \cup {label} |->
        IF k = label THEN GaugeValue(gauge, label) + amount ELSE gauge[k]]

\* faulty variant of view_outpost: every user may view every outpost
view_outpost_everyone(user) == OutpostNames

\* get_objects_for_user(user, "authentik_outposts.view_outpost"): the
\* outposts the user may view
view_outpost(user) == IF user = "service" THEN {"o1"} ELSE {}

\* OutpostConsumer.connect
connect(w, c, user, pk) ==
    IF pk \notin view_outpost(user)
    THEN [w EXCEPT !.consumers[c].status = "denied",
                   !.consumers[c].user = user,
                   !.consumers[c].pk = pk,
                   !.last = Handler("connect", c, NoMessage,
                                    "DenyConnection", FALSE, FALSE, 0)]
    ELSE [w EXCEPT !.consumers[c].status = "accepted",
                   !.consumers[c].user = user,
                   !.consumers[c].pk = pk,
                   !.consumers[c].outpost = pk,
                   !.consumers[c].last_uid = c,
                   !.last = Handler("connect", c, NoMessage, "", FALSE,
                                    FALSE, 0)]

\* OutpostConsumer.disconnect
disconnect(w, c) ==
    LET self == w.consumers[c]
        state == for_instance_uid(w.cache, self.outpost, self.last_uid)
        listed == c \in Range(state.channel_ids)
        removed == [state EXCEPT !.channel_ids = remove(@, c)]
    IN  IF self.outpost # NoOutpost /\ self.last_uid # ""
        THEN [w EXCEPT
                !.consumers[c].status = "closed",
                !.cache = IF listed
                          THEN state_save(@, self.outpost, removed) ELSE @,
                !.gauge = GaugeAdd(@, <<self.outpost, self.last_uid>>, -1),
                !.last = Handler("disconnect", c, NoMessage, "", TRUE,
                                 listed, 0)]
        ELSE [w EXCEPT
                !.consumers[c].status = "closed",
                !.last = Handler("disconnect", c, NoMessage, "", FALSE,
                                 FALSE, 0)]

\* faulty variant of Answers: an ACK is acknowledged like any other
\* message
AnswersAck(instruction) == TRUE

\* receive_json returns before the save and the reply when the message is
\* an ACK
Answers(instruction) == instruction # ACK

\* OutpostConsumer.receive_json
receive_json(w, c, msg) ==
    LET self == w.consumers[c]
        uid == ArgsGetUuid(msg.args, self.channel_name)
        state == for_instance_uid(w.cache, self.outpost, uid)
        appended ==
            IF c \in Range(state.channel_ids) THEN state
            ELSE [state EXCEPT !.channel_ids = Append(@, c)]
        counted ==
            IF self.first_msg THEN w.gauge
            ELSE GaugeAdd(w.gauge, <<self.outpost, uid>>, 1)
        label == IF self.first_msg THEN self.counted ELSE <<self.outpost, uid>>
    IN  IF self.outpost = NoOutpost
        THEN [w EXCEPT
                !.consumers[c].last_uid = uid,
                !.consumers[c].received = @ + 1,
                !.last = Handler("receive_json", c, msg, "DenyConnection",
                                 FALSE, FALSE, 0)]
        ELSE IF ~Answers(msg.instruction)
        THEN [w EXCEPT
                !.consumers[c].last_uid = uid,
                !.consumers[c].first_msg = TRUE,
                !.consumers[c].counted = label,
                !.consumers[c].received = @ + 1,
                !.gauge = counted,
                !.last = Handler("receive_json", c, msg, "", TRUE, FALSE,
                                 0)]
        ELSE [w EXCEPT
                !.consumers[c].last_uid = uid,
                !.consumers[c].first_msg = TRUE,
                !.consumers[c].counted = label,
                !.consumers[c].received = @ + 1,
                !.consumers[c].sent = Append(@, WebsocketMessage(ACK, <<>>)),
                !.gauge = counted,
                !.cache = state_save(@, self.outpost, appended),
                !.last = Handler("receive_json", c, msg, "", TRUE, TRUE,
                                 1)]

\* OutpostConsumer.event_update
event_update(w, c) ==
    [w EXCEPT !.consumers[c].sent =
                  Append(@, WebsocketMessage(TRIGGER_UPDATE, <<>>)),
              !.last = Handler("event_update", c, NoMessage, "", FALSE,
                               FALSE, 1)]

OutpostsOtherVars ==
    <<flow_policies, flow_mode, flow_bindings, sess, pe, store,
      worker, legacy>>

\* a websocket connects: the user of the session and the outpost in the URL
OutpostConnects ==
    /\ outposts.phase = "run"
    /\ \E c \in Channels, user \in OutpostUsers, pk \in OutpostNames :
          /\ outposts.consumers[c].status = "new"
          /\ outposts' = connect(outposts, c, user, pk)
    /\ UNCHANGED OutpostsOtherVars

\* a message arrives on an accepted socket
OutpostReceives ==
    /\ outposts.phase = "run"
    /\ \E c \in Channels, msg \in Messages :
          /\ outposts.consumers[c].status = "accepted"
          /\ outposts.consumers[c].received < MaxMessages
          /\ outposts' = receive_json(outposts, c, msg)
    /\ UNCHANGED OutpostsOtherVars

\* receive_json is called on a consumer whose connection was denied
OutpostReceivesDenied ==
    /\ outposts.phase = "run"
    /\ \E c \in Channels, msg \in Messages :
          /\ outposts.consumers[c].status = "denied"
          /\ outposts.consumers[c].received < MaxMessages
          /\ outposts' = receive_json(outposts, c, msg)
    /\ UNCHANGED OutpostsOtherVars

\* the socket closes, after an accepted or a denied connect
OutpostDisconnects ==
    /\ outposts.phase = "run"
    /\ \E c \in Channels :
          /\ outposts.consumers[c].status \in {"accepted", "denied"}
          /\ outposts' = disconnect(outposts, c)
    /\ UNCHANGED OutpostsOtherVars

InitOutposts ==
    /\ flow_policies = <<>>
    /\ flow_mode = "all"
    /\ flow_bindings = <<>>
    /\ sess = [s \in Sessions |-> NewSession(s, EmptyContext)]
    /\ pe = IdleEngine
    /\ store = IdleStore
    /\ worker = IdleWorker
    /\ legacy = IdleLegacy
    /\ outposts = NewOutposts

NextOutposts ==
    \/ OutpostConnects
    \/ OutpostReceives
    \/ OutpostReceivesDenied
    \/ OutpostDisconnects

SpecOutposts == InitOutposts /\ [][NextOutposts]_vars

\* ---------------------------------------------------------------------
\* Claims C31..C37
\* ---------------------------------------------------------------------

\* the handler that ran in this step, on consumer c
Ran(op, c) ==
    /\ outposts' # outposts
    /\ outposts'.last.op = op
    /\ outposts'.last.channel = c

\* C31: an outpost websocket connection is accepted only if the connecting
\* user has the view_outpost permission on the outpost named in the URL;
\* otherwise connect raises DenyConnection without accepting, the
\* consumer's outpost stays unset, and every message it then receives is
\* denied without reading or writing any OutpostState.
C31_OnlyPermittedConsumersReachState ==
    [][\A c \in Channels :
        LET before == outposts.consumers[c]
            after == outposts'.consumers[c]
            permitted == after.user = "service" /\ after.pk = "o1"
        IN  /\ Ran("connect", c) =>
                IF permitted
                THEN /\ after.status = "accepted"
                     /\ after.outpost = after.pk
                     /\ outposts'.last.raised = ""
                ELSE /\ after.status = "denied"
                     /\ after.outpost = NoOutpost
                     /\ outposts'.last.raised = "DenyConnection"
            /\ Ran("receive_json", c) /\ before.status = "denied" =>
                /\ after.outpost = NoOutpost
                /\ after.status = "denied"
                /\ after.sent = before.sent
                /\ outposts'.last.raised = "DenyConnection"
                /\ ~outposts'.last.read
                /\ ~outposts'.last.saved
                /\ outposts'.cache = outposts.cache
                /\ outposts'.gauge = outposts.gauge]_vars

\* a denied consumer has just been refused a HELLO while an accepted
\* consumer of the outpost it asked for has a saved state
C31_Witness ==
    /\ outposts.phase = "run"
    /\ outposts.last.op = "receive_json"
    /\ outposts.last.raised = "DenyConnection"
    /\ outposts.last.msg.instruction = HELLO
    /\ outposts.consumers[outposts.last.channel].status = "denied"
    /\ outposts.consumers[outposts.last.channel].pk = "o1"
    /\ \E c \in Channels : outposts.consumers[c].status = "accepted"
    /\ DOMAIN outposts.cache # {}

\* C34: after an outpost consumer has disconnected, its channel name is in
\* the channel_ids of no OutpostState of that outpost, whatever messages
\* (also messages naming different instance uuids) it sent while connected.
C34_DisconnectedChannelIsInNoState ==
    \A c \in Channels :
        outposts.phase = "run" /\ outposts.consumers[c].status = "closed" =>
            \A key \in DOMAIN outposts.cache :
                key[1] = outposts.consumers[c].pk =>
                    c \notin Range(outposts.cache[key].channel_ids)

\* C35: the authentik_outposts_connected gauge of every (outpost, uid)
\* label is never negative and equals the number of connected consumers
\* counted under that label: a connection increments at most once and
\* decrements the same label once on disconnect.
C35_GaugeCountsConnectedConsumers ==
    outposts.phase = "run" =>
        \A label \in DOMAIN outposts.gauge :
            /\ outposts.gauge[label] >= 0
            /\ outposts.gauge[label] =
                  Cardinality({c \in Channels :
                      /\ outposts.consumers[c].status = "accepted"
                      /\ outposts.consumers[c].counted = label})

\* ---------------------------------------------------------------------
\* An accepted consumer and the outpost at the other end of its socket
\* ---------------------------------------------------------------------

PeerUuids == {<<>>, <<"A">>}

\* the outpost sends a message of its own
PeerSends ==
    /\ outposts.phase = "run"
    /\ outposts.budget > 0
    /\ \E c \in Channels, i \in Instructions, u \in PeerUuids :
          /\ outposts.consumers[c].status = "accepted"
          /\ outposts' =
                [outposts EXCEPT
                    !.inbox[c] = Append(@, WebsocketMessage(i, u)),
                    !.budget = @ - 1,
                    !.last = NoHandler]
    /\ UNCHANGED OutpostsOtherVars

\* a post_save signal reaches the consumer
ServerUpdates ==
    /\ outposts.phase = "run"
    /\ outposts.budget > 0
    /\ \E c \in Channels :
          /\ outposts.consumers[c].status = "accepted"
          /\ outposts' =
                [event_update(outposts, c) EXCEPT !.budget = @ - 1]
    /\ UNCHANGED OutpostsOtherVars

\* the consumer takes the next message off its socket
ConsumerReceives ==
    /\ outposts.phase = "run"
    /\ \E c \in Channels :
          /\ outposts.consumers[c].status = "accepted"
          /\ outposts.inbox[c] # <<>>
          /\ outposts' =
                receive_json([outposts EXCEPT !.inbox[c] = Tail(@)], c,
                             Head(outposts.inbox[c]))
    /\ UNCHANGED OutpostsOtherVars

\* the outpost takes the next message off the socket; it may acknowledge
\* whatever it receives, an ACK included
PeerReceives ==
    /\ outposts.phase = "run"
    /\ \E c \in Channels, acknowledges \in BOOLEAN :
          /\ outposts.consumers[c].status = "accepted"
          /\ outposts.consumers[c].sent # <<>>
          /\ outposts' =
                [outposts EXCEPT
                    !.consumers[c].sent = Tail(@),
                    !.inbox[c] =
                        IF acknowledges
                        THEN Append(@, WebsocketMessage(ACK, <<>>))
                        ELSE @,
                    !.last = NoHandler]
    /\ UNCHANGED OutpostsOtherVars

InitOutpostPeers ==
    /\ flow_policies = <<>>
    /\ flow_mode = "all"
    /\ flow_bindings = <<>>
    /\ sess = [s \in Sessions |-> NewSession(s, EmptyContext)]
    /\ pe = IdleEngine
    /\ store = IdleStore
    /\ worker = IdleWorker
    /\ legacy = IdleLegacy
    /\ outposts =
          [connect(NewOutposts, "ch1", "service", "o1")
              EXCEPT !.budget = MaxMessages]

NextOutpostPeers ==
    \/ PeerSends
    \/ ServerUpdates
    \/ ConsumerReceives
    \/ PeerReceives

\* both ends keep reading their socket
SpecOutpostPeers ==
    /\ InitOutpostPeers
    /\ [][NextOutpostPeers]_vars
    /\ WF_vars(ConsumerReceives)
    /\ WF_vars(PeerReceives)

\* nothing is on its way in either direction
Quiet ==
    \A c \in Channels :
        outposts.inbox[c] = <<>> /\ outposts.consumers[c].sent = <<>>

\* C36: an authorized consumer answers every received message whose
\* instruction is not ACK with exactly one ACK, after saving the outpost
\* state, and answers a received ACK with nothing; so although the peer may
\* acknowledge acknowledgements, the exchange of acknowledgements ends.
C36_AckIsNeverAcknowledged ==
    /\ [][\A c \in Channels :
            Ran("receive_json", c) =>
                LET before == outposts.consumers[c]
                    after == outposts'.consumers[c]
                    msg == outposts'.last.msg
                    uid == ArgsGetUuid(msg.args, c)
                IN  IF msg.instruction # ACK
                    THEN /\ after.sent
                              = Append(before.sent,
                                       WebsocketMessage(ACK, <<>>))
                         /\ outposts'.last.saved
                         /\ <<after.outpost, uid>> \in DOMAIN outposts'.cache
                         /\ c \in Range(outposts'.cache[
                                   <<after.outpost, uid>>].channel_ids)
                    ELSE /\ after.sent = before.sent
                         /\ ~outposts'.last.saved
                         /\ outposts'.cache = outposts.cache]_vars
    /\ <>[]Quiet

\* the consumer has acknowledged a message, the outpost has acknowledged
\* that acknowledgement, and the consumer has received it in silence
C36_Witness ==
    /\ outposts.phase = "run"
    /\ outposts.last.op = "receive_json"
    /\ outposts.last.msg.instruction = ACK
    /\ outposts.last.sent = 0
    /\ outposts.budget = MaxMessages - 1
    /\ outposts.consumers["ch1"].received = 2
    /\ DOMAIN outposts.cache # {}
    /\ Quiet

\* a POST of session s was handed to the ChallengeStageView of a stage in
\* this step
PostOn(s) ==
    /\ Handled(s)
    /\ sess'[s].request.method = "POST"
    /\ sess'[s].current # None

\* the handler whose effects the session shows
RanChallengeValid(r) == r.via = "STAGE_DONE"
RanRestartFlow(r) == r.via = "RESTARTING" /\ r.state = "PLANNING" /\ ~r.has_plan
RanChallengeInvalid(r) ==
    /\ r.via = "none" /\ r.state = "STAGE_PENDING"
    /\ r.response.kind = "challenge" /\ r.response.errors

\* C33: for every POST to a ChallengeStageView exactly one of three
\* handlers runs: challenge_valid iff the response is valid; restart_flow
\* iff it is invalid and the action of the current binding is RESTART or
\* RESTART_WITH_CONTEXT, keeping the context exactly for
\* RESTART_WITH_CONTEXT; challenge_invalid iff it is invalid and the action
\* is anything else.
C33_PostRunsExactlyOneHandler ==
    [][\A s \in Sessions :
        PostOn(s) =>
            LET r == sess'[s]
                valid == r.request.valid
                action == flow_bindings[r.current].invalid_response_action
                restarts == action \in {RESTART, RESTART_WITH_CONTEXT}
                ran == {h \in {"challenge_valid", "restart_flow",
                               "challenge_invalid"} :
                          \/ h = "challenge_valid" /\ RanChallengeValid(r)
                          \/ h = "restart_flow" /\ RanRestartFlow(r)
                          \/ h = "challenge_invalid" /\ RanChallengeInvalid(r)}
            IN  /\ Cardinality(ran) = 1
                /\ RanChallengeValid(r) <=> valid
                /\ RanRestartFlow(r) <=> (~valid /\ restarts)
                /\ RanChallengeInvalid(r) <=> (~valid /\ ~restarts)
                /\ RanRestartFlow(r) =>
                      r.initial_context =
                          IF action = RESTART_WITH_CONTEXT
                          THEN IF sess[s].has_plan /\ ~sess[s].corrupt
                               THEN sess[s].context
                               ELSE r.planned_context
                          ELSE EmptyContext]_vars

\* ---------------------------------------------------------------------
\* One TaskInfo object and the cache (authentik/events/monitored_tasks.py)
\* ---------------------------------------------------------------------

MaxSaves == 2        \* calls of save() on the one object

\* TaskInfo.by_name: cache.get(f"task_{name}"), <<>> for None
by_name(cache, name) ==
    LET key == <<"task">> \o name
    IN  IF key \in DOMAIN cache THEN <<cache[key]>> ELSE <<>>

\* TaskInfo.delete: cache.delete(f"task_{self.task_name}")
delete(cache, info) ==
    [k \in DOMAIN cache \ {<<"task">> \o info.task_name} |-> cache[k]]

\* the object, the cache, the keys save() has written for the object
NewTaskInfo(info) ==
    [phase |-> "info", info |-> info, cache |-> NoCache, written |-> {},
     saves |-> 0, op |-> "new"]

InfoNames == {"backup_database", "clean_expired_models"}
InfoFuncs == {"run", "apply_async"}

InitTaskInfo ==
    /\ flow_policies = <<>>
    /\ flow_mode = "all"
    /\ flow_bindings = <<>>
    /\ sess = [s \in Sessions |-> NewSession(s, EmptyContext)]
    /\ pe = IdleEngine
    /\ store = IdleStore
    /\ legacy = IdleLegacy
    /\ outposts = IdleOutposts
    /\ \E name \in InfoNames, result \in TaskResults, func \in InfoFuncs :
          worker = NewTaskInfo(TaskInfo(name, result, func))

\* info.save()
InfoSaves ==
    /\ worker.phase = "info"
    /\ worker.saves < MaxSaves
    /\ LET s == save(worker.info)
       IN  worker' =
              [worker EXCEPT
                  !.info = s.info,
                  !.cache = [k \in DOMAIN worker.cache \cup {s.key} |->
                                IF k = s.key THEN s.info
                                ELSE worker.cache[k]],
                  !.written = @ \cup {s.key},
                  !.saves = @ + 1,
                  !.op = "save"]
    /\ UNCHANGED WorkerOtherVars

\* info.delete()
InfoDeletes ==
    /\ worker.phase = "info"
    /\ worker.op # "delete"
    /\ worker' = [worker EXCEPT !.cache = delete(@, worker.info),
                                !.op = "delete"]
    /\ UNCHANGED WorkerOtherVars

NextTaskInfo == InfoSaves \/ InfoDeletes

SpecTaskInfo == InitTaskInfo /\ [][NextTaskInfo]_vars

\* C37: a TaskInfo object occupies at most one cache key however often
\* save() is called on it, with or without a result uid: by_name of its
\* task_name returns it after a save, and delete() after any number of
\* saves leaves no cache entry written by that object.
C37_TaskInfoOccupiesOneKey ==
    worker.phase = "info" =>
        /\ Cardinality(worker.written \cap DOMAIN worker.cache) <= 1
        /\ worker.op = "save" =>
              by_name(worker.cache, worker.info.task_name) = <<worker.info>>
        /\ worker.op = "delete" =>
              worker.written \cap DOMAIN worker.cache = {}

\* ---------------------------------------------------------------------
\* The legacy multi-factor wizard (passbook/core/auth/view.py)
\* ---------------------------------------------------------------------

MaxWizardRequests == 2   \* requests of the one browser session

SESSION_FACTOR == "passbook_factor"
SESSION_PENDING_FACTORS == "passbook_pending_factors"
SESSION_PENDING_USER == "passbook_pending_user"
SESSION_USER_BACKEND == "passbook_user_backend"

\* the paths of the factor classes, and what stands for the queryset that
\* dispatch appends instead of a path
Factors == {"password", "otp"}
QuerySet == "<QuerySet>"
KnownUsers == {"1"}

\* a session maps keys to values; every value is a list of strings
EmptySession == [k \in {} |-> <<>>]
SessionSet(session, key, value) ==
    [k \in DOMAIN session \cup {key} |->
        IF k = key THEN value ELSE session[k]]

\* a reply: the session as the request leaves it and where the reply leads;
\* a request that ends in an exception leaves the session as it found it
Reply(session, response) == [session |-> session, response |-> response]

\* django.contrib.auth.login for a session without an authenticated user:
\* the session data is kept, user and backend are recorded
login(session, user, backend) ==
    SessionSet(SessionSet(session, "_auth_user_id", user),
               "_auth_user_backend", backend)

\* AuthenticationView._cleanup
cleanup(session) ==
    LET session_keys == {"SESSION_FACTOR", "SESSION_PENDING_FACTORS",
                         "SESSION_PENDING_USER", "SESSION_USER_BACKEND"}
    IN  [k \in DOMAIN session \ session_keys |-> session[k]]

\* AuthenticationView._user_passed
user_passed(session) ==
    IF SESSION_USER_BACKEND \notin DOMAIN session
    THEN Reply(session, "KeyError")
    ELSE Reply(cleanup(login(session, session[SESSION_PENDING_USER],
                             session[SESSION_USER_BACKEND])),
               "overview")

\* AuthenticationView.user_ok.  When dispatch has taken pending_factors
\* from the session, self.pending_factors is the session's own list:
\* remove() changes the stored list in place, and the session is saved
\* with it once login() has written to the session
user_ok(session, current_factor, pending_factors) ==
    LET pending ==
            IF current_factor \in Range(pending_factors)
            THEN remove(pending_factors, current_factor)
            ELSE pending_factors
        next_factor == pending[Len(pending)]
        rest == SubSeq(pending, 1, Len(pending) - 1)
        in_place ==
            IF SESSION_PENDING_FACTORS \in DOMAIN session
            THEN SessionSet(session, SESSION_PENDING_FACTORS, pending)
            ELSE session
        passed == user_passed(in_place)
    IN  IF pending # <<>>
        THEN IF next_factor \in Factors
             THEN Reply(SessionSet(SessionSet(session,
                            SESSION_PENDING_FACTORS, rest),
                            SESSION_FACTOR, <<next_factor>>),
                        "auth-process")
             ELSE Reply(session, "NoReverseMatch")
        ELSE IF passed.response = "KeyError"
        THEN Reply(session, "KeyError")
        ELSE passed

\* AuthenticationView.dispatch and the handler of the factor it hands the
\* request to; passing is the number of enabled factors that pass for the
\* user, outcome what the factor does with the request
dispatch(session, passing, outcome) ==
    LET pending_factors ==
            IF SESSION_PENDING_FACTORS \in DOMAIN session
            THEN session[SESSION_PENDING_FACTORS]
            ELSE [i \in 1..passing |-> QuerySet]
        factor_class ==
            IF SESSION_FACTOR \notin DOMAIN session
            THEN pending_factors[1]
            ELSE session[SESSION_FACTOR][1]
    IN  IF SESSION_PENDING_USER \notin DOMAIN session
        THEN Reply(session, "auth-login")
        ELSE IF session[SESSION_PENDING_USER][1] \notin KnownUsers
        THEN Reply(session, "Http404")
        ELSE IF SESSION_FACTOR \notin DOMAIN session /\ pending_factors = <<>>
        THEN Reply(session, "IndexError")
        ELSE IF factor_class \notin Factors
        THEN Reply(session, "AttributeError")
        ELSE IF "_auth_user_id" \in DOMAIN session
        THEN Reply(session, "handle_no_permission")
        ELSE IF outcome = "user_ok"
        THEN user_ok(session, factor_class, pending_factors)
        ELSE IF outcome = "user_invalid"
        THEN Reply(session, "auth-denied")
        ELSE Reply(session, "factor")

\* the sessions a request can find: empty, or with the pending user and
\* the backend the login view has written, with or without the entries
\* earlier requests of the wizard have written
Absent == <<"(absent)">>
WizardSession(user, factors, factor) ==
    [k \in {SESSION_PENDING_USER, SESSION_USER_BACKEND}
           \cup (IF factors = Absent THEN {} ELSE {SESSION_PENDING_FACTORS})
           \cup (IF factor = Absent THEN {} ELSE {SESSION_FACTOR}) |->
        IF k = SESSION_PENDING_USER THEN <<user>>
        ELSE IF k = SESSION_USER_BACKEND THEN <<"ModelBackend">>
        ELSE IF k = SESSION_PENDING_FACTORS THEN factors
        ELSE factor]

WizardSessions ==
    {EmptySession}
    \cup
    { WizardSession(user, factors, factor) :
        user \in {"1", "2"},
        factors \in {Absent, <<>>, <<"password">>, <<"otp">>,
                     <<"password", "otp">>, <<"otp", "password">>},
        factor \in {Absent} \cup {<<f>> : f \in Factors} }

LegacyOtherVars ==
    <<flow_policies, flow_mode, flow_bindings, sess, pe, store,
      worker, outposts>>

InitLegacy ==
    /\ flow_policies = <<>>
    /\ flow_mode = "all"
    /\ flow_bindings = <<>>
    /\ sess = [s \in Sessions |-> NewSession(s, EmptyContext)]
    /\ pe = IdleEngine
    /\ store = IdleStore
    /\ worker = IdleWorker
    /\ outposts = IdleOutposts
    /\ \E session \in WizardSessions :
          legacy = [phase |-> "run", session |-> session,
                    response |-> "none", requests |-> 0]

\* one request to the wizard
WizardRequest ==
    /\ legacy.phase = "run"
    /\ legacy.requests < MaxWizardRequests
    /\ \E passing \in 0..2, outcome \in {"render", "user_ok", "user_invalid"} :
          LET reply == dispatch(legacy.session, passing, outcome)
          IN  legacy' = [legacy EXCEPT !.session = reply.session,
                                       !.response = reply.response,
                                       !.requests = @ + 1]
    /\ UNCHANGED LegacyOtherVars

NextLegacy == WizardRequest

SpecLegacy == InitLegacy /\ [][NextLegacy]_vars

\* C32: after the legacy AuthenticationView has logged the user in
\* (_user_passed), none of the temporary session entries passbook_factor,
\* passbook_pending_factors, passbook_pending_user and
\* passbook_user_backend remains in the session.
C32_LoginLeavesNoTemporaryEntries ==
    (/\ legacy.phase = "run"
     /\ legacy.response = "overview"
     /\ "_auth_user_id" \in DOMAIN legacy.session) =>
        DOMAIN legacy.session
            \cap {SESSION_FACTOR, SESSION_PENDING_FACTORS,
                  SESSION_PENDING_USER, SESSION_USER_BACKEND} = {}

====
